---- MODULE Spec2Model ----
(***************************************************************************)
(* cursor-tap: a TLS-terminating proxy that mirrors the decrypted byte     *)
(* stream into an HTTP/1.1 parser, records what it parses through a        *)
(* session recorder and fans the records out through a subscription hub.  *)
(*                                                                         *)
(* The module holds one state machine per component, each with its own    *)
(* initial predicate and next-state relation over a disjoint group of     *)
(* variables:                                                             *)
(*   SpecPipe  Parser.pipeWithMirror, one direction of the splice         *)
(*   SpecRec   Recorder / Session, the emission path of the parser tasks  *)
(*   SpecCorr  Parser.parseRequests / parseResponses, the pending slot    *)
(*   SpecHub   api.Hub, Broadcast / Run / the clients' pumps              *)
(*   SpecCache Recorder.addToCache / GetRecentRecords, the in-memory ring  *)
(*   SpecCA    ca.CA, the root, the leaf caches and their callers          *)
(*   SpecLeaf  ca.CA within one run of the process                          *)
(*   SpecMitm  mitm.Interceptor, the steps of one connection                *)
(*   SpecAccept proxy.Server's handshake and mitm.PeekableConn, the bytes   *)
(*   SpecFwd   Parser.Forward, both directions, their parsers, closeWrite   *)
(*   SpecFwdLive  the same under fair scheduling                            *)
(*   SpecGRPC  GRPCParser.ReadFrame / ParseMessage and Session.LogGRPC      *)
(*   SpecStream  one parser task: parseGRPCBody / parseGRPCStream per body  *)
(*   SpecServer  proxy.Server's Start and Stop and its two accept loops     *)
(*   SpecCT    ParseContentType over the content-type values                *)
(*   SpecFrame GRPCParser.ReadFrame over the bytes of a body                 *)
(*   SpecReg   MessageRegistry: Register and TryParseFromGlobalRegistry      *)
(*   SpecSocks Server.handleSOCKS5Connection, one connection                 *)
(*   SpecDial  mitm.Dialer through an upstream proxy, and the connection     *)
(*             it returns                                                    *)
(*   SpecHubOps  api.Hub under any Register and Unregister calls             *)
(*   SpecLife  proxy.Server under any sequence of Start and Stop calls       *)
(*   SpecSSE   SSEParser.Next over the lines of a body                       *)
(***************************************************************************)
EXTENDS Integers, Sequences, FiniteSets, Bags, TLC

\* ------------------------------------------------------------------ bounds

\* Bytes the source of one direction can deliver before it ends.
MaxBytes == 4
\* Largest number of bytes one Read of the source returns.
MaxChunk == 2

\* Sessions (accepted connections that reach the splice) in one recorder lifetime.
NSessions == 2
\* Emission calls (LogRequest, LogResponse, LogGRPC, ...) in one recorder lifetime.
MaxEmit == 3
\* The recorder's maxCacheSize, which WithCacheSize configures.
CacheSize == 2

\* Calls of Recorder.addToCache in one lifetime of the ring.
MaxAdds == 4
\* Largest limit a caller of GetRecentRecords tries, besides the handler's own.
MaxLimit == 3

\* Goroutines that call CA.GetOrCreateCert (one per intercepted connection).
NCallers == 2
\* Leaf certificates minted over the lifetime of the certificate directory.
MaxMints == 2
\* Administrative events over the lifetime of the certificate directory:
\* root generations by New, CleanCerts and Regenerate calls, stops of the process.
MaxAdmin == 3

\* Connections the acceptor hands to the interceptor.
NConns == 2

\* Bytes of the acceptor handshake request (CONNECT request, SOCKS5 greeting
\* and request) and the most the client sends after it.
HsLen == 2
MaxPayload == 4
\* Size of a bufio.Reader's buffer in the model (bufio's default is 4096).
BufSize == 3
\* Bytes DetectTLSWithSNI peeks first in the model (detect.go line 86 asks for 6).
PeekLen == 2
\* Largest buffer the interceptor's readers pass to PeekableConn.Read.
MaxRead == 4

\* Reads that return data, per direction of Forward, before the source ends.
FwdReads == 2

\* Request/response pairs carried by one keep-alive connection.
NPairs == 2

\* Messages one parser task reads from its direction of a connection, and
\* frames it reads from one envelope-framed body.
MaxBodies == 2
MaxFrames == 3

\* Connections the two accept loops of one server take, in all.
MaxAccepts == 2

\* Capacity of the hub's intake channel and of a client's send channel in
\* the model; the code makes both 256 (hub.go lines 35 and 108).
HubCap == 1
ClientCap == 1
\* WebSocket clients in one hub lifetime.
NClients == 2
\* Records passed to Hub.Broadcast in one hub lifetime.
MaxMsgs == 3

\* ------------------------------------------------------------- variables

VARIABLES
  \* --- pipeWithMirror (one direction)
  copyPc,        \* position of the forwarding goroutine (io.Copy over the TeeReader)
  parserPc,      \* position of the parser goroutine
  nread,         \* bytes read from the source so far (the stream is 1, 2, 3, ...)
  chunk,         \* the chunk io.Copy holds between tee.Read and dst.Write
  chunkErr,      \* the error src.Read returned with that chunk: "none", "eof", "err"
  pipeBuf,       \* bytes of the pending pw.Write the pipe reader has not yet taken
  pwClosed,      \* pw.Close() has been called
  dst,           \* bytes written to the destination
  dstFailed,     \* a dst.Write failed
  srcEnd,        \* how the source ended: "none", "eof", "err"
  ret,           \* what pipeWithMirror returns: "none" (running), "nil", "srcErr", "dstErr"
  badAt,         \* the byte at which the mirrored stream stops being valid HTTP (0: never)
  parsed,        \* number of bytes the parser consumed while parsing
  parserFailed   \* parseStream returned on a parse or decode error

VARIABLES
  \* --- Recorder and its sessions
  sessionSeq,    \* Recorder.sessionSeq, the atomic session counter
  sessSeq,       \* Session.Seq of each session (0: not created yet)
  recordIndex,   \* Session.recordIndex of each session
  inflight,      \* per session, the bag of Log* calls its parser tasks are inside
  log,           \* the lines of the JSONL file, in file order
  records,       \* Recorder.records, the atomic count of written records
  recordCache,   \* Recorder.recordCache
  callbacks,     \* the records handed to onRecord, in call order
  emitted        \* emission calls started so far

recVars == << sessionSeq, sessSeq, recordIndex, inflight, log, records,
              recordCache, callbacks, emitted >>

VARIABLES
  \* --- the parser's request/response correlation (one session)
  reqs,          \* input: for each request, whether it is a POST with a gRPC/Connect
                 \* content-type; request i has the path "/svc.i/M", written i
  resps,         \* input: each response's content-type class, or "malformed"
  reqPc,         \* position of parseRequests
  reqN,          \* requests read by parseRequests so far
  respPc,        \* position of parseResponses
  respN,         \* responses read by parseResponses so far
  slot,          \* lastRequestURL (0: ""), lastRequestIsGRPC
  popped,        \* parseResponses' locals requestPath, requestWasGRPC
  route,         \* how each response's body was routed, and with which path
  corrRecs       \* records the two parser tasks emitted

corrVars == << reqs, resps, reqPc, reqN, respPc, respN, slot, popped, route, corrRecs >>

VARIABLES
  \* --- api.Hub and its clients
  broadcast,     \* h.broadcast, the intake channel (message k is the k-th Broadcast)
  clients,       \* h.clients
  send,          \* c.send of each client
  sendClosed,    \* close(c.send) has run
  received,      \* messages WritePump wrote to the client's connection
  nextMsg,       \* number of the next record passed to Broadcast
  droppedIntake, \* history: messages Broadcast dropped
  taken,         \* history: messages the hub loop took from h.broadcast, in order
  regTaken,      \* history: Len(taken) when the client was registered (-1: never)
  regEarly,      \* history: the client was registered before the first Broadcast
  unregTaken,    \* history: Len(taken) when the client was unregistered (-1: not)
  droppedFor     \* history: messages the hub loop skipped for the client

hubVars == << broadcast, clients, send, sendClosed, received, nextMsg,
              droppedIntake, taken, regTaken, regEarly, unregTaken, droppedFor >>

VARIABLES
  \* --- the in-memory ring (Recorder.recordCache is declared with the recorder)
  added,         \* history: the records passed to addToCache, in the order of the calls
  recent,        \* what the last GetRecentRecords returned
  recentLimit,   \* the limit it was called with
  recentRing,    \* history: the ring as that call found it
  recentFresh    \* history: nothing was added to the ring since that call

cacheVars == << added, recent, recentLimit, recentRing, recentFresh >>

VARIABLES
  \* --- ca.CA: the files of the certificate directory, the process, its callers
  hostName,      \* input: the host the connections of this run are for
  diskCrt,       \* root generation whose certificate is in ca/ca.crt (0: no file)
  diskKey,       \* root generation whose key is in ca/ca.key (0: no file, -1: unusable)
  diskLeaf,      \* per host, the leaf in certs/<host>.crt and .key
  caPc,          \* the process and its administrative call: "down", "idle", or the step
  caCert,        \* CA.caCert, by root generation (0: nil)
  caKey,         \* CA.caKey, by root generation (0: nil)
  certCache,     \* CA.certCache, per host
  calls,         \* the bag of GetOrCreateCert calls that missed the cache and go on
  roots,         \* root generations started so far
  mints,         \* leaves minted so far
  admin,         \* administrative events so far
  regenerated,   \* history: Regenerate returned nil, nothing administrative ran since
  crowd,         \* history: a call in progress overlapped another call or an
                 \* administrative call
  settled,       \* history: per host, the leaf a call that ran alone returned, since
                 \* the last clean, regenerate or restart
  returned       \* history: what the latest GetOrCreateCert call to return handed
                 \* back, since the last administrative call began

caVars == << hostName, diskCrt, diskKey, diskLeaf, caPc, caCert, caKey, certCache,
             calls, roots, mints, admin, regenerated, crowd, settled, returned >>

VARIABLES
  \* --- mitm.Interceptor: the connections handed to InterceptAuto
  enableHTTPParsing, \* Interceptor.enableHTTPParsing
  hasRecorder,       \* Interceptor.recorder is not nil
  connPc,            \* per connection, the step its goroutine is at
  handshakes,        \* per connection, the TLS handshakes completed on it
  connSeq,           \* per connection, Session.Seq of its session (0: no session)
  upstream,          \* per connection, the connection the dialer made to the
                     \* target: "none", "open" or "closed"
  clientConn,        \* per connection, the accepted connection: "open" or "closed"
  tlsSteps           \* history: per connection, the steps interceptTLS took on
                     \* it, each with its outcome

mitmVars == << enableHTTPParsing, hasRecorder, connPc, handshakes, connSeq, upstream,
              clientConn, tlsSteps >>

VARIABLES
  \* --- proxy.Server's acceptor handshake and mitm.PeekableConn, one connection
  payload,       \* input: how many bytes the client sends after its handshake request
  isTLS,         \* input: those bytes begin with a TLS ClientHello
  totalLen,      \* input: the length DetectTLSWithSNI computes for its second Peek
  wire,          \* the bytes the client sent that conn.Read has not returned yet
  outBuf,        \* the buffer of the acceptor's bufio.Reader
  hsLeft,        \* bytes of the handshake request the acceptor has yet to read
  inBuf,         \* the buffer of PeekableConn.reader
  accPc,         \* "handshake", "peek", "peekFull", "read", "eof" or "closed"
  handed,        \* the bytes PeekableConn.Read has returned to the interceptor
  sameRead,      \* history: payload bytes came with the read that ended the handshake
  peeked         \* history: the bytes the first Peek returned

acceptVars == << payload, isTLS, totalLen, wire, outBuf, hsLeft, inBuf, accPc, handed,
                 sameRead, peeked >>

pipeVars == << copyPc, parserPc, nread, chunk, chunkErr, pipeBuf, pwClosed, dst,
               dstFailed, srcEnd, ret, badAt, parsed, parserFailed >>

\* The components added to the first four.
VARIABLES
  \* --- Parser.Forward: two directions, each a copy loop and a parser task
  tlsPath,       \* input: Forward was reached through interceptTLS (else interceptPlain)
  reads,         \* per direction, the src.Read calls that returned data
  dirPc,         \* per direction, the step of its forwarding goroutine
  mirrorPc,      \* per direction, its parser task: "parse", "drain" or "done"
  pipeClosed,    \* per direction, pw.Close() was called
  endedBy,       \* per direction, what ended io.Copy: "none", "eof", "err", "dstErr"
  errChan,       \* per direction, what was sent on errC2S / errS2C ("none": nothing yet)
  closeWrites,   \* per connection, the CloseWrite calls made on it
  fwdPc,         \* Forward itself: "wait" or "returned"
  fwdRet         \* what Forward returned

fwdVars == << tlsPath, reads, dirPc, mirrorPc, pipeClosed, endedBy, errChan, closeWrites,
              fwdPc, fwdRet >>

VARIABLES
  \* --- GRPCParser.ParseMessage and Session.LogGRPC, one frame after another
  grpcPc,        \* "read", "parse" or "log"
  grpcFrame,     \* the GRPCFrame ReadFrame returned, with what decoding it will meet
  grpcMsg,       \* the GRPCMessage ParseMessage returned
  grpcRec,       \* the record LogGRPC has just written
  outcomes       \* history: the decode outcomes logged so far

grpcVars == << grpcPc, grpcFrame, grpcMsg, grpcRec, outcomes >>

VARIABLES
  \* --- one parser task (parseRequests or parseResponses) and the bodies it decodes
  logLevel,      \* input: Recorder.logLevel, "basic" or "debug"
  stIsRequest,   \* input: the task is parseRequests (else parseResponses)
  stPc,          \* "head" (at http.ReadRequest / ReadResponse), "frames"
                 \* (in parseGRPCStream's loop), "unary" or "returned"
  bodyNo,        \* messages read so far
  head,          \* the message being handled: method is POST, content-type, and
                 \* (for a response) whether the popped slot held a gRPC request
  frameIndex,    \* parseGRPCStream's frameIndex
  wireNo,        \* history: frames ReadFrame returned from this body
  stRecs,        \* the records emitted for this message, in order
  stLast,        \* the last grpc record, with the frame it was made from
  readErr,       \* how reading this body ended: "none", "EOF" (at a frame
                 \* boundary), "EOF after header" (io.EOF too, from the read of
                 \* the payload), "unexpected EOF", "frame too large"
  prevFrames,    \* history: grpc records emitted for the message before this one
  sawHuge,       \* history: a frame with length field 0xFFFFFFFF was met
  lateRec        \* history: a record was emitted for a message after that frame

streamVars == << logLevel, stIsRequest, stPc, bodyNo, head, frameIndex, wireNo, stRecs,
                 stLast, readErr, prevFrames, sawHuge, lateRec >>

VARIABLES
  \* --- proxy.Server: Start, Stop and the goroutines of the two proxy listeners
  running,       \* Server.running
  stopChan,      \* "open" or "closed"
  startPc,       \* Start: "idle", "select", "wait", "returned" or "failed"
  stopPc,        \* Stop: "idle", "closeChan", "http", "socks5", "rest" or "done"
  lsnPc,         \* per proxy, its goroutine: "idle", "listen", "assign", "accept"
                 \* or "returned"
  lsnSocket,     \* per proxy, the listener net.Listen made: "none", "open", "closed"
  lsnField,      \* per proxy, s.httpListener / s.socks5Listener is not nil
  startErrs,     \* errors sent on Start's errChan
  acceptedConns  \* connections the accept loops took

serverVars == << running, stopChan, startPc, stopPc, lsnPc, lsnSocket, lsnField,
                 startErrs, acceptedConns >>

VARIABLES
  \* --- ParseContentType, one call
  ctIn,          \* input: the Content-Type header value, in segments
  ctInfo         \* << >> before the call, then << the ContentTypeInfo returned >>

ctVars == << ctIn, ctInfo >>

VARIABLES
  \* --- GRPCParser.ReadFrame, one call on the bytes of a body
  frBody,        \* input: the bytes the reader still holds
  frOut          \* << >> before the call, then << what the call returned and
                 \* how many bytes it took from the reader >>

frameVars == << frBody, frOut >>

VARIABLES
  \* --- MessageRegistry
  regPool,       \* input: what protoregistry.GlobalFiles / GlobalTypes hold
  requests,      \* MessageRegistry.requests, per method of the one service
  responses,     \* MessageRegistry.responses
  regOps,        \* calls made so far
  regLast        \* the last call: its name, its method and what it returned

regVars == << regPool, requests, responses, regOps, regLast >>

VARIABLES
  \* --- Server.handleSOCKS5Connection, one accepted connection
  socksIn,       \* input: the bytes the client sends before it closes or stalls
  socksPos,      \* how many of them the handler has read
  socksPc,       \* "greeting", "methods", "request", "address", "intercept"
                 \* (InterceptAuto was called) or "closed" (the handler returned)
  socksOut,      \* the replies written to the client, in order
  socksTarget    \* << >>, or << the target handed to InterceptAuto >>

socksVars == << socksIn, socksPos, socksPc, socksOut, socksTarget >>

VARIABLES
  \* --- Dialer.dialHTTPProxy / dialSOCKS5Proxy, one call, and the reads that follow
  dialVia,       \* input: the scheme of the upstream proxy, "http" or "socks5"
  dialTarget,    \* input: how many bytes the target sends behind the handshake
  upWire,        \* the bytes the upstream proxy sent that conn.Read has not returned yet
  dialBuf,       \* the buffer of dialHTTPProxy's bufio.Reader
  dialPc,        \* the step of the dial, then "connected", "eof" or "failed"
  dialHdr,       \* the array the last conn.Read of dialSOCKS5Proxy filled
  dialRemaining, \* len(remaining) in dialSOCKS5Proxy
  wrapped,       \* the connection returned is a bufferedConn
  delivered      \* the bytes Read has returned from the connection Dial returned

dialVars == << dialVia, dialTarget, upWire, dialBuf, dialPc, dialHdr, dialRemaining,
               wrapped, delivered >>

VARIABLES
  \* --- Hub.Run meeting any sequence of Register and Unregister calls
  unregCalls,    \* per client, the Unregister calls the hub loop has received
  closes         \* history: per client, how often close(client.send) was executed

hubOpsVars == << unregCalls, closes >>

VARIABLES
  \* --- proxy.Server: any sequence of Start and Stop calls on one Server
  lifeCalls,     \* the calls made so far, in the order of their locked sections
  startOut,      \* what the last Start did: "none", "started" or the error text
  waiting,       \* Start calls in the select of line 180
  closing,       \* Stop calls between s.mu.Unlock() and close(s.stopChan)
  chanCloses     \* history: how often close(s.stopChan) was executed

lifeVars == << lifeCalls, startOut, waiting, closing, chanCloses >>

VARIABLES
  \* --- SSEParser.Next, called by parseSSEEvents until it fails
  sseIn,         \* input: the lines of the body, each without its final "\n"
  sseOpenTail,   \* input: the last of them is not followed by "\n"
  ssePos,        \* lines ReadBytes has returned so far
  lastID,        \* SSEParser.lastID
  sseEvents,     \* the events Next returned, each with what its block held
  ssePc          \* "open", or "eof" once Next returned an error

sseVars == << sseIn, sseOpenTail, ssePos, lastID, sseEvents, ssePc >>

lateVars == << hubOpsVars, lifeVars, sseVars >>

\* The components whose specifications come last in the module.
tailVars == << ctVars, frameVars, regVars, socksVars, dialVars, lateVars >>

restVars == << mitmVars, acceptVars, fwdVars, grpcVars, streamVars, serverVars, tailVars >>

baseVars == << pipeVars, recVars, corrVars, hubVars, cacheVars, caVars, mitmVars,
               acceptVars, fwdVars, grpcVars, streamVars, serverVars >>
moreVars == << cacheVars, caVars, restVars >>

vars == << pipeVars, recVars, corrVars, hubVars, moreVars >>

\* What a step of one component leaves alone: the other components.
PipeFrame == UNCHANGED << recVars, corrVars, hubVars, moreVars >>
RecFrame == UNCHANGED << pipeVars, corrVars, hubVars, moreVars >>
CorrFrame == UNCHANGED << pipeVars, recVars, hubVars, moreVars >>
HubFrame == UNCHANGED << pipeVars, recVars, corrVars, moreVars >>
CacheFrame == UNCHANGED << pipeVars, corrVars, hubVars, sessionSeq, sessSeq, recordIndex,
                           inflight, log, records, callbacks, emitted, caVars, restVars >>
CAFrame == UNCHANGED << pipeVars, recVars, corrVars, hubVars, cacheVars, hostName, restVars >>
MitmFrame == UNCHANGED << pipeVars, corrVars, hubVars, cacheVars, caVars, sessSeq,
                          recordIndex, inflight, log, records, recordCache, callbacks,
                          emitted, acceptVars, fwdVars, grpcVars, streamVars, serverVars,
                          tailVars >>
AcceptFrame == UNCHANGED << pipeVars, recVars, corrVars, hubVars, cacheVars, caVars,
                            mitmVars, payload, isTLS, totalLen, fwdVars, grpcVars,
                            streamVars, serverVars,
                            tailVars >>
FwdFrame == UNCHANGED << pipeVars, recVars, corrVars, hubVars, cacheVars, caVars,
                         mitmVars, acceptVars, tlsPath, grpcVars, streamVars,
                         serverVars,
                         tailVars >>
GRPCFrameOthers == UNCHANGED << pipeVars, recVars, corrVars, hubVars, cacheVars, caVars,
                                mitmVars, acceptVars, fwdVars, streamVars, serverVars,
                                tailVars >>
StreamFrameOthers == UNCHANGED << pipeVars, recVars, corrVars, hubVars, cacheVars, caVars,
                            mitmVars, acceptVars, fwdVars, grpcVars, logLevel, stIsRequest,
                            serverVars,
                                  tailVars >>
CTFrame == UNCHANGED << baseVars, frameVars, regVars, socksVars, dialVars, lateVars >>
FrameFrame == UNCHANGED << baseVars, ctVars, regVars, socksVars, dialVars, lateVars >>
RegFrame == UNCHANGED << baseVars, ctVars, frameVars, regPool, socksVars, dialVars,
                         lateVars >>
SocksFrame == UNCHANGED << baseVars, ctVars, frameVars, regVars, socksIn, dialVars,
                           lateVars >>
DialFrame == UNCHANGED << baseVars, ctVars, frameVars, regVars, socksVars, dialVia,
                          dialTarget, lateVars >>
\* The components outside the hub and the late ones.
NoHubVars == << pipeVars, recVars, corrVars, cacheVars, caVars, mitmVars, acceptVars,
                fwdVars, grpcVars, streamVars, ctVars, frameVars, regVars, socksVars,
                dialVars >>
HubOpsFrame == UNCHANGED << NoHubVars, serverVars, lifeVars, sseVars >>
LifeFrame == UNCHANGED << NoHubVars, hubVars, hubOpsVars, startPc, stopPc, lsnPc,
                          lsnSocket, lsnField, startErrs, acceptedConns, sseVars >>
SSEFrame == UNCHANGED << NoHubVars, hubVars, hubOpsVars, serverVars, lifeVars, sseIn,
                         sseOpenTail >>
ServerFrame == UNCHANGED << pipeVars, recVars, corrVars, hubVars, cacheVars, caVars,
                            mitmVars, acceptVars, fwdVars, grpcVars, streamVars,
                            tailVars >>

\* The bytes k+1 .. k+n of the source stream.
Bytes(k, n) == [i \in 1..n |-> k + i]

\* ============================================================ pipeWithMirror

PipeStart ==
  /\ copyPc = "read"
  /\ parserPc = "parse"
  /\ nread = 0
  /\ chunk = << >>
  /\ chunkErr = "none"
  /\ pipeBuf = << >>
  /\ pwClosed = FALSE
  /\ dst = << >>
  /\ dstFailed = FALSE
  /\ srcEnd = "none"
  /\ ret = "none"
  /\ parsed = 0
  /\ parserFailed = FALSE

\* io.Copy leaves its loop: err is nil on EOF, else the error met.
CopyEnds(e) ==
  /\ srcEnd' = IF e = "dstErr" THEN srcEnd ELSE e
  /\ ret' = CASE e = "eof" -> "nil" [] e = "err" -> "srcErr" [] OTHER -> "dstErr"
  /\ copyPc' = "closePw"

\* tee.Read, first half: src.Read returns n bytes and the error e.  With
\* n > 0 the TeeReader goes on to pw.Write(p[:n]), which hands the bytes to
\* the pipe and waits there; with n = 0 io.Copy sees the error at once.
SrcRead(n, e) ==
  /\ copyPc = "read"
  /\ n <= MaxBytes - nread
  /\ (n = 0) => (e # "none")
  /\ IF n > 0
       THEN /\ chunk' = Bytes(nread, n)
            /\ pipeBuf' = Bytes(nread, n)
            /\ chunkErr' = e
            /\ nread' = nread + n
            /\ copyPc' = "teeWrite"
            /\ UNCHANGED << srcEnd, ret >>
       ELSE /\ CopyEnds(e)
            /\ UNCHANGED << chunk, pipeBuf, chunkErr, nread >>
  /\ UNCHANGED << parserPc, pwClosed, dst, dstFailed, badAt, parsed, parserFailed >>
  /\ PipeFrame

\* tee.Read, second half: pw.Write returns once the pipe reader has taken
\* every byte of the chunk (io.Pipe has no buffer of its own).
TeeWriteReturns ==
  /\ copyPc = "teeWrite"
  /\ pipeBuf = << >>
  /\ copyPc' = "dstWrite"
  /\ UNCHANGED << parserPc, nread, chunk, chunkErr, pipeBuf, pwClosed, dst, dstFailed,
                  srcEnd, ret, badAt, parsed, parserFailed >>
  /\ PipeFrame

\* dst.Write(buf[:nr]) writes k bytes; k short of the chunk is a failed write,
\* which ends io.Copy.  After a full write the error that came with the chunk,
\* if any, ends it.
DstWrite(k) ==
  /\ copyPc = "dstWrite"
  /\ k \in 0..Len(chunk)
  /\ dst' = dst \o SubSeq(chunk, 1, k)
  /\ chunk' = << >>
  /\ chunkErr' = "none"
  /\ IF k < Len(chunk)
       THEN /\ dstFailed' = TRUE
            /\ CopyEnds("dstErr")
       ELSE /\ dstFailed' = dstFailed
            /\ IF chunkErr = "none"
                 THEN /\ copyPc' = "read"
                      /\ UNCHANGED << srcEnd, ret >>
                 ELSE CopyEnds(chunkErr)
  /\ UNCHANGED << parserPc, nread, pipeBuf, pwClosed, badAt, parsed, parserFailed >>
  /\ PipeFrame

\* pw.Close(): the parser side will see EOF.
PwClose ==
  /\ copyPc = "closePw"
  /\ pwClosed' = TRUE
  /\ copyPc' = "waitParser"
  /\ UNCHANGED << parserPc, nread, chunk, chunkErr, pipeBuf, dst, dstFailed, srcEnd,
                  ret, badAt, parsed, parserFailed >>
  /\ PipeFrame

\* <-parserDone, then return err.
WaitParser ==
  /\ copyPc = "waitParser"
  /\ parserPc = "done"
  /\ copyPc' = "done"
  /\ UNCHANGED << parserPc, nread, chunk, chunkErr, pipeBuf, pwClosed, dst, dstFailed,
                  srcEnd, ret, badAt, parsed, parserFailed >>
  /\ PipeFrame

\* A parser goroutine that ends without the drain of line 166.
ParseFails_NoDrain ==
  /\ parserFailed' = TRUE
  /\ parserPc' = "done"

\* parseStream ends on a parse or decode error: the goroutine goes on to
\* io.Copy(io.Discard, pr).
ParseFails ==
  /\ parserFailed' = TRUE
  /\ parserPc' = "drain"

\* The parser's bufio.Reader (or a body reader on top of it) takes k bytes
\* from the pipe.  Meeting the invalid byte ends parseStream; otherwise the
\* parser either reads on or goes into a logger call or callback ("busy"),
\* during which it does not read.
ParserRead(k, next) ==
  /\ parserPc = "parse"
  /\ k \in 1..Len(pipeBuf)
  /\ next \in {"parse", "busy"}
  /\ pipeBuf' = SubSeq(pipeBuf, k + 1, Len(pipeBuf))
  /\ parsed' = parsed + k
  /\ IF badAt \in {pipeBuf[i] : i \in 1..k}
       THEN ParseFails
       ELSE /\ parserPc' = next
            /\ parserFailed' = parserFailed
  /\ UNCHANGED << copyPc, nread, chunk, chunkErr, pwClosed, dst, dstFailed, srcEnd,
                  ret, badAt >>
  /\ PipeFrame

\* The logger call or callback returns.
ParserResumes ==
  /\ parserPc = "busy"
  /\ parserPc' = "parse"
  /\ UNCHANGED << copyPc, nread, chunk, chunkErr, pipeBuf, pwClosed, dst, dstFailed,
                  srcEnd, ret, badAt, parsed, parserFailed >>
  /\ PipeFrame

\* http.ReadRequest / ReadResponse meets EOF: parseStream returns.
ParserEOF ==
  /\ parserPc = "parse"
  /\ pipeBuf = << >>
  /\ pwClosed
  /\ parserPc' = "drain"
  /\ UNCHANGED << copyPc, nread, chunk, chunkErr, pipeBuf, pwClosed, dst, dstFailed,
                  srcEnd, ret, badAt, parsed, parserFailed >>
  /\ PipeFrame

\* io.Copy(io.Discard, pr): takes whatever the pipe holds.
DrainRead ==
  /\ parserPc = "drain"
  /\ pipeBuf # << >>
  /\ pipeBuf' = << >>
  /\ UNCHANGED << copyPc, parserPc, nread, chunk, chunkErr, pwClosed, dst, dstFailed,
                  srcEnd, ret, badAt, parsed, parserFailed >>
  /\ PipeFrame

\* The drain meets EOF; the deferred close(parserDone) runs.
DrainEOF ==
  /\ parserPc = "drain"
  /\ pipeBuf = << >>
  /\ pwClosed
  /\ parserPc' = "done"
  /\ UNCHANGED << copyPc, nread, chunk, chunkErr, pipeBuf, pwClosed, dst, dstFailed,
                  srcEnd, ret, badAt, parsed, parserFailed >>
  /\ PipeFrame

PipeNext ==
  \/ \E n \in 0..MaxChunk, e \in {"none", "eof", "err"} : SrcRead(n, e)
  \/ TeeWriteReturns
  \/ \E k \in 0..MaxChunk : DstWrite(k)
  \/ PwClose
  \/ WaitParser
  \/ \E k \in 1..MaxChunk, next \in {"parse", "busy"} : ParserRead(k, next)
  \/ ParserResumes
  \/ ParserEOF
  \/ DrainRead
  \/ DrainEOF

\* What io.Copy's result must be, given only what the source and the
\* destination did.
ExpectedRet ==
  IF dstFailed THEN "dstErr" ELSE IF srcEnd = "eof" THEN "nil" ELSE "srcErr"

\* C1: the forward copy never waits for the parser task: there is no state in
\* which io.Copy holds a chunk it has read from the source, has not written it
\* to the destination, and cannot go on because the parser, busy in a logger
\* call, has not taken the mirrored bytes.
C1_ForwardNeverWaitsForParser ==
  ~(copyPc = "teeWrite" /\ pipeBuf # << >> /\ parserPc = "busy")

\* C2: once the parser of a direction has stopped on a parse or decode error,
\* forwarding goes on untouched: the destination holds exactly the source's
\* bytes, in order; every byte read is forwarded or in the copy's hand; the
\* stopped parser keeps emptying the pipe, so it is never gone while the copy
\* still has bytes to mirror; and the value returned is the one the source and
\* the destination alone decide.
C2_ForwardingSurvivesParserFailure ==
  parserFailed =>
    /\ dst = Bytes(0, Len(dst))
    /\ parserPc \in {"drain", "done"}
    /\ (parserPc = "done") => (copyPc \in {"waitParser", "done"})
    /\ (~dstFailed) => (Len(dst) + Len(chunk) = nread)
    /\ (copyPc = "done") =>
         /\ ret = ExpectedRet
         /\ (~dstFailed) => (dst = Bytes(0, nread))

\* C2 witness: the parser failed, bytes read after its failure reached the
\* destination, and the splice of this direction returned nil.
C2_Witness ==
  /\ parserFailed
  /\ copyPc = "done"
  /\ ret = "nil"
  /\ Len(dst) = MaxBytes
  /\ parsed < Len(dst)

\* ================================================================= Recorder

Sessions == 1..NSessions

\* The two directions of a session; Forward runs one parser task for each, and
\* both emit through the same Session.
Directions == {"C2S", "S2C"}

NoRec == [session |-> 0, seq |-> 0, index |-> 0]

\* A Log* call in progress: where it stands, the value of s.recordIndex it
\* loaded, the Record it has built.
Call(pc, tmp, rec) == [pc |-> pc, tmp |-> tmp, rec |-> rec]

\* One call of session s moves from state c to state d.
Step(s, c, d) == inflight' = [inflight EXCEPT ![s] = (@ (-) SetToBag({c})) (+) SetToBag({d})]

\* One call of session s, in state c, returns.
Return(s, c) == inflight' = [inflight EXCEPT ![s] = @ (-) SetToBag({c})]

RecStart ==
  /\ sessionSeq = 0
  /\ sessSeq = [s \in Sessions |-> 0]
  /\ recordIndex = [s \in Sessions |-> 0]
  /\ inflight = [s \in Sessions |-> EmptyBag]
  /\ log = << >>
  /\ records = 0
  /\ recordCache = << >>
  /\ callbacks = << >>
  /\ emitted = 0

\* A NewSession that reads the counter without advancing it.
NewSession_NoAdd(s) ==
  /\ sessSeq[s] = 0
  /\ \A r \in Sessions : r < s => sessSeq[r] # 0
  /\ sessionSeq' = sessionSeq
  /\ sessSeq' = [sessSeq EXCEPT ![s] = sessionSeq + 1]
  /\ UNCHANGED << recordIndex, inflight, log, records, recordCache, callbacks, emitted >>
  /\ RecFrame

\* Recorder.NewSession: seq := r.sessionSeq.Add(1), one atomic step.  Sessions
\* are numbered in the order of their creation; the number stands for the
\* random Session.ID.
NewSession(s) ==
  /\ sessSeq[s] = 0
  /\ \A r \in Sessions : r < s => sessSeq[r] # 0
  /\ sessionSeq' = sessionSeq + 1
  /\ sessSeq' = [sessSeq EXCEPT ![s] = sessionSeq + 1]
  /\ UNCHANGED << recordIndex, inflight, log, records, recordCache, callbacks, emitted >>
  /\ RecFrame

\* A Log* call starts on a parser task of session s that is not inside one:
\* nextRecordIndex loads s.recordIndex (first half of the unsynchronised
\* s.recordIndex++).
EmitLoad(s) ==
  /\ sessSeq[s] # 0
  /\ BagCardinality(inflight[s]) < Cardinality(Directions)
  /\ emitted < MaxEmit
  /\ emitted' = emitted + 1
  /\ inflight' = [inflight EXCEPT ![s] = @ (+) SetToBag({Call("inc", recordIndex[s], NoRec)})]
  /\ UNCHANGED << sessionSeq, sessSeq, recordIndex, log, records, recordCache, callbacks >>
  /\ RecFrame

\* Second half of s.recordIndex++: the store.
EmitStore(s) ==
  \E c \in BagToSet(inflight[s]) :
    /\ c.pc = "inc"
    /\ recordIndex' = [recordIndex EXCEPT ![s] = c.tmp + 1]
    /\ Step(s, c, Call("ret", c.tmp, NoRec))
    /\ UNCHANGED << sessionSeq, sessSeq, log, records, recordCache, callbacks, emitted >>
    /\ RecFrame

\* return s.recordIndex: the value just stored, kept in a register, or the
\* field read again; the Record is built around it.
EmitReturn(s, fromMemory) ==
  \E c \in BagToSet(inflight[s]) :
    /\ c.pc = "ret"
    /\ Step(s, c, Call("write", 0,
                       [session |-> s, seq |-> sessSeq[s],
                        index |-> IF fromMemory THEN recordIndex[s] ELSE c.tmp + 1]))
    /\ UNCHANGED << sessionSeq, sessSeq, recordIndex, log, records, recordCache,
                    callbacks, emitted >>
    /\ RecFrame

\* Recorder.write, under r.mu: encoder.Encode appends the line.  When Encode
\* fails, write returns the error and the record goes nowhere.
Write(s, ok) ==
  \E c \in BagToSet(inflight[s]) :
    /\ c.pc = "write"
    /\ IF ok
         THEN /\ log' = Append(log, c.rec)
              /\ Step(s, c, Call("cache", 0, c.rec))
         ELSE /\ Return(s, c)
              /\ UNCHANGED log
    /\ UNCHANGED << sessionSeq, sessSeq, recordIndex, records, recordCache, callbacks,
                    emitted >>
    /\ RecFrame

\* An addToCache that appends and never trims.
CachePush_NoTrim(cache, rec) == Append(cache, rec)

\* Recorder.addToCache, the whole of it under r.cacheMu: append, then drop the
\* first record when the slice is longer than maxCacheSize.
CachePush(cache, rec) ==
  LET q == Append(cache, rec)
  IN IF Len(q) > CacheSize THEN SubSeq(q, 2, Len(q)) ELSE q

\* After r.mu is released: r.records.Add(1), then Recorder.addToCache.
AddToCache(s) ==
  \E c \in BagToSet(inflight[s]) :
    /\ c.pc = "cache"
    /\ records' = records + 1
    /\ recordCache' = CachePush(recordCache, c.rec)
    /\ Step(s, c, Call("notify", 0, c.rec))
    /\ UNCHANGED << sessionSeq, sessSeq, recordIndex, log, callbacks, emitted >>
    /\ RecFrame

\* r.onRecord(rec), then write and the Log* call return.
Notify(s) ==
  \E c \in BagToSet(inflight[s]) :
    /\ c.pc = "notify"
    /\ callbacks' = Append(callbacks, c.rec)
    /\ Return(s, c)
    /\ UNCHANGED << sessionSeq, sessSeq, recordIndex, log, records, recordCache, emitted >>
    /\ RecFrame

RecNext ==
  \/ \E s \in Sessions : NewSession(s)
  \/ \E s \in Sessions : EmitLoad(s)
  \/ \E s \in Sessions : EmitStore(s)
  \/ \E s \in Sessions, m \in BOOLEAN : EmitReturn(s, m)
  \/ \E s \in Sessions, ok \in BOOLEAN : Write(s, ok)
  \/ \E s \in Sessions : AddToCache(s)
  \/ \E s \in Sessions : Notify(s)

\* C3: of two records of one session, the one appended to the log first has
\* the strictly smaller index.
C3_LogOrderFollowsIndex ==
  \A i, j \in DOMAIN log :
    (i < j /\ log[i].session = log[j].session) => log[i].index < log[j].index

\* C4: no two written records carry the same (session, index) pair, so the
\* written lines count as many distinct pairs as there were successful writes.
C4_SessionIndexUnique ==
  /\ \A i, j \in DOMAIN log :
       (i # j) => << log[i].session, log[i].index >> # << log[j].session, log[j].index >>
  /\ Cardinality({ << log[i].session, log[i].index >> : i \in DOMAIN log }) = Len(log)

\* C5, as stated: seq never decreases along the log, and increases strictly
\* between records of different sessions.
C5_SeqMonotoneInLog ==
  \A i, j \in DOMAIN log :
    (i < j) => /\ log[i].seq <= log[j].seq
               /\ (log[i].session # log[j].session) => log[i].seq < log[j].seq

\* C5, amended: seq is the number of the record's session.  Two records have
\* the same seq exactly when they belong to the same session, every record
\* carries the seq its session got at creation, and a session created later
\* has the strictly larger seq.
C5_SeqIdentifiesSession ==
  /\ \A i, j \in DOMAIN log :
       (log[i].seq = log[j].seq) <=> (log[i].session = log[j].session)
  /\ \A i \in DOMAIN log : log[i].seq = sessSeq[log[i].session] /\ log[i].seq >= 1
  /\ \A s, r \in Sessions :
       (s < r /\ sessSeq[r] # 0) => (sessSeq[s] # 0 /\ sessSeq[s] < sessSeq[r])

\* C5 witness: two sessions are alive together, their records interleave in
\* the log, and a record of the later session precedes one of the earlier.
C5_Witness ==
  \E i, j, k \in DOMAIN log :
    /\ i < j /\ j < k
    /\ log[i].session = 1 /\ log[j].session = 2 /\ log[k].session = 1

\* The records of a, in their order, are found in b in the same order.
RECURSIVE InOrderWithin(_, _)
InOrderWithin(a, b) ==
  IF a = << >> THEN TRUE
  ELSE IF b = << >> THEN FALSE
  ELSE IF Head(a) = Head(b) THEN InOrderWithin(Tail(a), Tail(b))
  ELSE InOrderWithin(a, Tail(b))

\* C37: with several sessions emitting at once, the records in the in-memory
\* ring and the records handed to the broadcast callback are in the order of
\* their lines in the log file.
C37_RingAndCallbackFollowLogOrder ==
  /\ InOrderWithin(recordCache, log)
  /\ InOrderWithin(callbacks, log)

\* ============================================== the in-memory ring of records

\* The handler's limit when the query gives none it accepts, and the largest
\* it accepts.
DefaultLimit == 100
MaxQueryLimit == 1000

\* The numbers tried as the limit parameter of GET /api/records.
QueryLimits ==
  (-1..MaxLimit) \cup {DefaultLimit, MaxQueryLimit, MaxQueryLimit + 1}

CacheStart ==
  /\ added = << >>
  /\ recent = << >>
  /\ recentLimit = 0
  /\ recentRing = << >>
  /\ recentFresh = FALSE

\* A Recorder.write reaches addToCache with a record of session s; the record
\* is told apart from the others by its place in the sequence of calls.
CacheAdd(s) ==
  /\ Len(added) < MaxAdds
  /\ LET rec == [session |-> s, seq |-> s, index |-> Len(added) + 1]
     IN /\ recordCache' = CachePush(recordCache, rec)
        /\ added' = Append(added, rec)
  /\ recentFresh' = FALSE
  /\ UNCHANGED << recent, recentLimit, recentRing >>
  /\ CacheFrame

\* A GetRecentRecords that returns the oldest records of the ring.
GetRecentRecords_Oldest(cache, limit) ==
  LET lim == IF limit <= 0 \/ limit > Len(cache) THEN Len(cache) ELSE limit
  IN SubSeq(cache, 1, lim)

\* Recorder.GetRecentRecords, under r.cacheMu.RLock: limit and start as the
\* code computes them, then the copy loop from start to the end of the slice.
GetRecentRecords(cache, limit) ==
  LET lim == IF limit <= 0 \/ limit > Len(cache) THEN Len(cache) ELSE limit
      st == Len(cache) - lim
      start == IF st < 0 THEN 0 ELSE st
  IN [i \in 1..(Len(cache) - start) |-> cache[start + i]]

\* A caller of the RecordStore invokes GetRecentRecords(limit).
CallGetRecentRecords(limit) ==
  /\ recent' = GetRecentRecords(recordCache, limit)
  /\ recentLimit' = limit
  /\ recentRing' = recordCache
  /\ recentFresh' = TRUE
  /\ UNCHANGED << recordCache, added >>
  /\ CacheFrame

\* Handler.HandleGetRecords: limit is 100 unless the query holds a number l
\* with 0 < l <= 1000; then GetRecentRecords(limit).  isNumber tells whether
\* the parameter is present and strconv.Atoi accepts it.
HandleGetRecords(isNumber, l) ==
  LET limit == IF isNumber /\ l > 0 /\ l <= MaxQueryLimit THEN l ELSE DefaultLimit
  IN /\ recent' = GetRecentRecords(recordCache, limit)
     /\ recentLimit' = limit
     /\ recentRing' = recordCache
     /\ recentFresh' = TRUE
     /\ UNCHANGED << recordCache, added >>
     /\ CacheFrame

CacheNext ==
  \/ \E s \in Sessions : CacheAdd(s)
  \/ \E limit \in -1..(MaxLimit + 1) : CallGetRecentRecords(limit)
  \/ \E isNumber \in BOOLEAN, l \in QueryLimits : HandleGetRecords(isNumber, l)

\* The last n elements of q.
LastN(q, n) == SubSeq(q, Len(q) - n + 1, Len(q))

\* C11: the ring holds at most CacheSize records, and they are the most recent
\* of the records added, as many as fit, in the order they were added; so an
\* add to a full ring loses the oldest record of the ring and no other.
C11_RingHoldsMostRecent ==
  /\ Len(recordCache) <= CacheSize
  /\ recordCache =
       LastN(added, IF Len(added) < CacheSize THEN Len(added) ELSE CacheSize)

\* C11 witness: more records were added than the ring holds, and the ring is
\* full.
C11_Witness ==
  /\ Len(added) > CacheSize
  /\ Len(recordCache) = CacheSize
  /\ recordCache[1] = added[Len(added) - CacheSize + 1]

\* C12: GetRecentRecords(limit) returns the last min(limit, size) records of
\* the ring as it found it, in the ring's order, all of them when limit <= 0
\* or limit > size, and leaves the ring as it found it.
C12_RecentRecordsAreTheTail ==
  LET size == Len(recentRing)
      n == IF recentLimit <= 0 \/ recentLimit > size THEN size ELSE recentLimit
  IN /\ recent = LastN(recentRing, n)
     /\ recentFresh => (recordCache = recentRing)

\* C12 witness: a full ring that has evicted records was asked for more than
\* it holds and gave all it holds.
C12_Witness ==
  /\ recentFresh
  /\ Len(added) > CacheSize
  /\ Len(recordCache) >= 2
  /\ recentLimit > Len(recordCache)
  /\ recent = recordCache

\* ======================================================================= CA

\* The hosts a leaf is asked for: a DNS name and an IPv6 literal, each given
\* bare or with a port.  An input is the text handed to GetOrCreateCert, a
\* sequence of characters.
HostNames == {"dns", "v6"}
NameText(n) == IF n = "dns" THEN << "a" >> ELSE << ":", ":", "1" >>
HostText(n, withPort) ==
  IF ~withPort THEN NameText(n)
  ELSE IF n = "dns" THEN NameText(n) \o << ":", "4" >>
  ELSE << "[" >> \o NameText(n) \o << "]", ":", "4" >>

\* The position of the last c in text t, 0 when there is none.
LastIndex(t, c) ==
  IF \E i \in DOMAIN t : t[i] = c
    THEN CHOOSE i \in DOMAIN t : t[i] = c /\ \A j \in DOMAIN t : t[j] = c => j <= i
    ELSE 0

\* The position of the first c in text t, 0 when there is none.
FirstIndex(t, c) ==
  IF \E i \in DOMAIN t : t[i] = c
    THEN CHOOSE i \in DOMAIN t : t[i] = c /\ \A j \in DOMAIN t : t[j] = c => i <= j
    ELSE 0

\* net.SplitHostPort: the host part and whether the split succeeded.  It fails
\* without a colon (missing port), on a bracketed host whose "]" is not
\* directly before the last colon, and on an unbracketed host that itself
\* holds a colon (too many colons).
SplitHostPort(t) ==
  LET i == LastIndex(t, ":")
      end == FirstIndex(t, "]")
  IN IF i = 0 THEN [ok |-> FALSE, host |-> t]
     ELSE IF t[1] = "["
       THEN IF end # 0 /\ end + 1 = i
              THEN [ok |-> TRUE, host |-> SubSeq(t, 2, end - 1)]
              ELSE [ok |-> FALSE, host |-> t]
       ELSE IF \E j \in 1..(i - 1) : t[j] = ":"
              THEN [ok |-> FALSE, host |-> t]
              ELSE [ok |-> TRUE, host |-> SubSeq(t, 1, i - 1)]

\* A port stripping that leaves the text as it is.
StripPort_Keep(t) == t

\* The first statement of GetOrCreateCert: host becomes the host part when
\* SplitHostPort succeeds and stays as given when it fails.
StripPort(t) == IF SplitHostPort(t).ok THEN SplitHostPort(t).host ELSE t

\* The keys the leaf caches can be asked for.
HostKeys == { HostText(hostName, w) : w \in BOOLEAN }

\* A leaf: the root generation whose key signed it and whose certificate is in
\* its chain, and its serial number.
NoLeaf == [signer |-> 0, serial |-> 0]

\* Nothing was returned since the last administrative call began.
NoResult == [leaf |-> NoLeaf, root |-> 0, st |-> NoLeaf, prev |-> NoLeaf, quiet |-> FALSE]

CAStart ==
  /\ hostName \in HostNames
  /\ diskCrt = 0
  /\ diskKey = 0
  /\ diskLeaf = [k \in HostKeys |-> NoLeaf]
  /\ caPc = "down"
  /\ caCert = 0
  /\ caKey = 0
  /\ certCache = [k \in HostKeys |-> NoLeaf]
  /\ calls = EmptyBag
  /\ crowd = FALSE
  /\ roots = 0
  /\ mints = 0
  /\ admin = 0
  /\ regenerated = FALSE
  /\ settled = [n \in HostNames |-> NoLeaf]
  /\ returned = NoResult

\* An administrative call or a stop of the process begins: no leaf counts as
\* settled or as returned any more.
Disturbed ==
  /\ settled' = [n \in HostNames |-> NoLeaf]
  /\ regenerated' = FALSE
  /\ returned' = NoResult

\* New has returned a CA: GetOrCreateCert, CleanCerts and Regenerate can be
\* called.
Running == caPc \notin {"down", "newCert", "newKey"}

\* New, when ca.crt and ca.key both exist: CA.load parses the two files and
\* takes what they hold; it does not compare the key with the certificate.
\* With an unusable ca.key New fails and there is no CA.
NewLoad ==
  /\ caPc = "down"
  /\ diskCrt # 0 /\ diskKey > 0
  /\ caCert' = diskCrt
  /\ caKey' = diskKey
  /\ caPc' = "idle"
  /\ UNCHANGED << diskCrt, diskKey, diskLeaf, certCache, calls, crowd, roots, mints, admin,
                  regenerated, settled, returned >>
  /\ CAFrame

\* New, when one of the two files is missing: CA.generate begins, a new key
\* pair and self-signed certificate are made.
NewGenerate ==
  /\ caPc = "down"
  /\ diskCrt = 0 \/ diskKey = 0
  /\ admin < MaxAdmin
  /\ admin' = admin + 1
  /\ roots' = roots + 1
  /\ caPc' = "newCert"
  /\ UNCHANGED << diskCrt, diskKey, diskLeaf, caCert, caKey, certCache, calls, crowd, mints,
                  regenerated, settled, returned >>
  /\ CAFrame

\* CA.generate: saveCert writes ca.crt.
SaveCert ==
  /\ caPc \in {"newCert", "regenCert"}
  /\ diskCrt' = roots
  /\ caPc' = IF caPc = "newCert" THEN "newKey" ELSE "regenKey"
  /\ UNCHANGED << diskKey, diskLeaf, caCert, caKey, certCache, calls, crowd, roots, mints,
                  admin, regenerated, settled, returned >>
  /\ CAFrame

\* CA.generate: saveKey writes ca.key, or fails to open it (the file stays as
\* it was), or fails after truncating it (the file is unusable).  After a
\* failure generate returns the error: New gives no CA, Regenerate returns to
\* its caller with caCert and caKey untouched.  After success under New the
\* two fields are set and New returns.
SaveKey(outcome) ==
  /\ caPc \in {"newKey", "regenKey"}
  /\ diskKey' = CASE outcome = "ok" -> roots
                  [] outcome = "openFails" -> diskKey
                  [] outcome = "writeFails" -> -1
  /\ IF outcome = "ok"
       THEN IF caPc = "newKey"
              THEN caCert' = roots /\ caKey' = roots /\ caPc' = "idle"
              ELSE caPc' = "regenSetCert" /\ UNCHANGED << caCert, caKey >>
       ELSE /\ caPc' = IF caPc = "newKey" THEN "down" ELSE "idle"
            /\ UNCHANGED << caCert, caKey >>
  /\ UNCHANGED << diskCrt, diskLeaf, certCache, calls, crowd, roots, mints, admin,
                  regenerated, settled, returned >>
  /\ CAFrame

\* CA.generate under Regenerate: ca.caCert = cert.
SetCaCert ==
  /\ caPc = "regenSetCert"
  /\ caCert' = roots
  /\ caPc' = "regenSetKey"
  /\ UNCHANGED << diskCrt, diskKey, diskLeaf, caKey, certCache, calls, crowd, roots, mints,
                  admin, regenerated, settled, returned >>
  /\ CAFrame

\* CA.generate under Regenerate: ca.caKey = key; generate and Regenerate
\* return nil.
SetCaKey ==
  /\ caPc = "regenSetKey"
  /\ caKey' = roots
  /\ caPc' = "idle"
  /\ regenerated' = TRUE
  /\ UNCHANGED << diskCrt, diskKey, diskLeaf, caCert, certCache, calls, crowd, roots, mints,
                  admin, settled, returned >>
  /\ CAFrame

\* CleanCerts, alone or as the first call of Regenerate: every file of the
\* certs directory is removed.
RemoveLeaves(regen) ==
  /\ caPc = "idle"
  /\ admin < MaxAdmin
  /\ admin' = admin + 1
  /\ diskLeaf' = [k \in HostKeys |-> NoLeaf]
  /\ caPc' = IF regen THEN "regenReset" ELSE "cleanReset"
  /\ crowd' = (calls # EmptyBag)
  /\ Disturbed
  /\ UNCHANGED calls
  /\ UNCHANGED << diskCrt, diskKey, caCert, caKey, certCache, roots, mints >>
  /\ CAFrame

\* CleanCerts: ca.certCache = sync.Map{}; then CleanCerts returns, and under
\* Regenerate CA.generate begins.
ResetCache ==
  /\ caPc \in {"cleanReset", "regenReset"}
  /\ certCache' = [k \in HostKeys |-> NoLeaf]
  /\ IF caPc = "cleanReset"
       THEN caPc' = "idle" /\ UNCHANGED roots
       ELSE caPc' = "regenCert" /\ roots' = roots + 1
  /\ UNCHANGED << diskCrt, diskKey, diskLeaf, caCert, caKey, calls, crowd, mints, admin,
                  regenerated, settled, returned >>
  /\ CAFrame

\* The process stops, at any point: what it held in memory is gone, the files
\* stay.
Stop ==
  /\ caPc # "down"
  /\ admin < MaxAdmin
  /\ admin' = admin + 1
  /\ caPc' = "down"
  /\ caCert' = 0
  /\ caKey' = 0
  /\ certCache' = [k \in HostKeys |-> NoLeaf]
  /\ calls' = EmptyBag
  /\ crowd' = FALSE
  /\ Disturbed
  /\ UNCHANGED << diskCrt, diskKey, diskLeaf, roots, mints >>
  /\ CAFrame

\* What a call hands back: the leaf, with the root certificate the CA holds at
\* that moment, the leaf that had settled for the host when the call began,
\* whether no administrative call is under way (quiet), and the leaf the call
\* that returned before it handed back when both are quiet.
Result(leaf, st) ==
  [leaf |-> leaf, root |-> caCert, st |-> st,
   prev |-> IF caPc = "idle" /\ returned.quiet THEN returned.leaf ELSE NoLeaf,
   quiet |-> caPc = "idle"]

\* A call in progress: where it stands, the cache key it computed, the leaf
\* it minted.
Minting(pc, host, cert) == [pc |-> pc, host |-> host, cert |-> cert]

\* The calls in progress after one of them ended.
Ended(e) == calls (-) SetToBag({e})

\* A call that returns leaf has run alone when no other call overlapped it and
\* no administrative call was under way; its leaf then settles for the host.
Settle(leaf, alone) ==
  settled' = IF alone /\ caPc = "idle" THEN [settled EXCEPT ![hostName] = leaf] ELSE settled

\* GetOrCreateCert begins, on a goroutine that is not inside it: the port is
\* stripped and certCache.Load(host) is tried; on a hit the cached leaf is
\* returned.
Lookup(withPort) ==
  LET host == StripPort(HostText(hostName, withPort))
  IN /\ Running
     /\ BagCardinality(calls) < NCallers
     /\ IF certCache[host] # NoLeaf
          THEN /\ returned' = Result(certCache[host], settled[hostName])
               /\ Settle(certCache[host], calls = EmptyBag)
               /\ UNCHANGED << calls, crowd >>
          ELSE /\ calls' = calls (+) SetToBag({Minting("disk", host, NoLeaf)})
               /\ crowd' = (crowd \/ calls # EmptyBag \/ caPc # "idle")
               /\ UNCHANGED << returned, settled >>
     /\ UNCHANGED << diskCrt, diskKey, diskLeaf, caPc, caCert, caKey, certCache, roots,
                     mints, admin, regenerated >>
     /\ CAFrame

\* Both files of the host exist and tls.LoadX509KeyPair accepts them, which
\* asks only that the leaf and its key fit: the leaf is stored in certCache
\* and returned.  Else CA.generateCert: x509.CreateCertificate signs a new
\* leaf with ca.caKey under ca.caCert, and refuses when the key is not the one
\* of that certificate; then GetOrCreateCert returns the error.
DiskOrMint ==
  \E e \in BagToSet(calls) :
    /\ e.pc = "disk"
    /\ IF diskLeaf[e.host] # NoLeaf
         THEN /\ certCache' = [certCache EXCEPT ![e.host] = diskLeaf[e.host]]
              /\ returned' = Result(diskLeaf[e.host], NoLeaf)
              /\ Settle(diskLeaf[e.host], ~crowd)
              /\ calls' = Ended(e)
              /\ crowd' = (crowd /\ Ended(e) # EmptyBag)
              /\ UNCHANGED mints
         ELSE /\ IF caCert = caKey
                   THEN /\ mints < MaxMints
                        /\ mints' = mints + 1
                        /\ calls' = Ended(e) (+)
                             SetToBag({Minting("save", e.host,
                                               [signer |-> caKey, serial |-> mints + 1])})
                        /\ UNCHANGED crowd
                   ELSE /\ calls' = Ended(e)
                        /\ crowd' = (crowd /\ Ended(e) # EmptyBag)
                        /\ UNCHANGED mints
              /\ UNCHANGED << certCache, returned, settled >>
    /\ UNCHANGED << diskCrt, diskKey, diskLeaf, caPc, caCert, caKey, roots, admin,
                    regenerated >>
    /\ CAFrame

\* CA.saveCertKeyPair writes the host's two files; a failure is only warned of.
SaveCertKeyPair(ok) ==
  \E e \in BagToSet(calls) :
    /\ e.pc = "save"
    /\ diskLeaf' = IF ok THEN [diskLeaf EXCEPT ![e.host] = e.cert] ELSE diskLeaf
    /\ calls' = Ended(e) (+) SetToBag({Minting("store", e.host, e.cert)})
    /\ UNCHANGED << diskCrt, diskKey, caPc, caCert, caKey, certCache, roots, mints,
                    admin, regenerated, settled, returned, crowd >>
    /\ CAFrame

\* certCache.Store(host, cert); return cert.
StoreCert ==
  \E e \in BagToSet(calls) :
    /\ e.pc = "store"
    /\ certCache' = [certCache EXCEPT ![e.host] = e.cert]
    /\ returned' = Result(e.cert, NoLeaf)
    /\ Settle(e.cert, ~crowd)
    /\ calls' = Ended(e)
    /\ crowd' = (crowd /\ Ended(e) # EmptyBag)
    /\ UNCHANGED << diskCrt, diskKey, diskLeaf, caPc, caCert, caKey, roots, mints,
                    admin, regenerated >>
    /\ CAFrame

\* The CA as New returns it on an empty certificate directory: the first root
\* generated, saved and held.
CAUp ==
  /\ hostName \in HostNames
  /\ diskCrt = 1
  /\ diskKey = 1
  /\ diskLeaf = [k \in HostKeys |-> NoLeaf]
  /\ caPc = "idle"
  /\ caCert = 1
  /\ caKey = 1
  /\ certCache = [k \in HostKeys |-> NoLeaf]
  /\ calls = EmptyBag
  /\ crowd = FALSE
  /\ roots = 1
  /\ mints = 0
  /\ admin = 1
  /\ regenerated = FALSE
  /\ settled = [n \in HostNames |-> NoLeaf]
  /\ returned = NoResult

\* One run of the process: the callers of GetOrCreateCert, CleanCerts and
\* Regenerate.
LeafNext ==
  \/ SaveCert
  \/ \E outcome \in {"ok", "openFails", "writeFails"} : SaveKey(outcome)
  \/ SetCaCert
  \/ SetCaKey
  \/ \E regen \in BOOLEAN : RemoveLeaves(regen)
  \/ ResetCache
  \/ \E withPort \in BOOLEAN : Lookup(withPort)
  \/ DiskOrMint
  \/ \E ok \in BOOLEAN : SaveCertKeyPair(ok)
  \/ StoreCert

CANext ==
  \/ NewLoad
  \/ NewGenerate
  \/ SaveCert
  \/ \E outcome \in {"ok", "openFails", "writeFails"} : SaveKey(outcome)
  \/ SetCaCert
  \/ SetCaKey
  \/ \E regen \in BOOLEAN : RemoveLeaves(regen)
  \/ ResetCache
  \/ Stop
  \/ \E withPort \in BOOLEAN : Lookup(withPort)
  \/ DiskOrMint
  \/ \E ok \in BOOLEAN : SaveCertKeyPair(ok)
  \/ StoreCert

\* C13: every certificate GetOrCreateCert returns, minted, cached or loaded
\* from disk, is signed by the key of the root certificate the CA holds when
\* the call returns, after any sequence of New, GetOrCreateCert, CleanCerts,
\* Regenerate and restarts.
C13_ReturnedLeafSignedByCurrentRoot ==
  returned.leaf # NoLeaf => returned.leaf.signer = returned.root

\* C14 as stated: with no CleanCerts, Regenerate or restart begun or under way
\* between them, two calls for the host that return one after the other return
\* the same leaf.
C14_RepeatedCallsReturnSameLeaf ==
  returned.prev # NoLeaf => returned.leaf = returned.prev

\* C14, amended: once a call that overlapped no other call and no
\* administrative call has returned a leaf for the host, and until the next
\* CleanCerts, Regenerate or restart begins, the memory cache holds that leaf
\* under the key both forms of the host (bare, with a port) are looked up by,
\* and every call that begins then returns it.
C14_SettledLeafIsReturned ==
  /\ settled[hostName] # NoLeaf =>
       \A withPort \in BOOLEAN :
         certCache[StripPort(HostText(hostName, withPort))] = settled[hostName]
  /\ returned.st # NoLeaf => returned.leaf = returned.st

\* A call began when a leaf had settled and returned that leaf, the one the
\* call before it returned, while the leaf files of the host hold it too.
C14_Witness ==
  /\ returned.st # NoLeaf
  /\ returned.leaf = returned.st
  /\ returned.prev = returned.st
  /\ settled[hostName] = returned.st
  /\ diskLeaf[NameText(hostName)] = returned.st

\* C15: once Regenerate has returned, and until the next administrative call
\* begins, no leaf signed by an earlier root is in the memory cache or on
\* disk, and no call returns one.
C15_NoLeafOfPreviousRootAfterRegenerate ==
  regenerated =>
    /\ \A k \in HostKeys : certCache[k].signer \in {0, roots}
    /\ \A k \in HostKeys : diskLeaf[k].signer \in {0, roots}
    /\ returned.quiet => returned.leaf.signer = roots

\* ============================================================== Interceptor

Conns == 1..NConns

MitmStart ==
  /\ connPc = [c \in Conns |-> "detect"]
  /\ handshakes = [c \in Conns |-> 0]
  /\ connSeq = [c \in Conns |-> 0]
  /\ upstream = [c \in Conns |-> "none"]
  /\ clientConn = [c \in Conns |-> "open"]
  /\ tlsSteps = [c \in Conns |-> << >>]

\* The goroutine of connection c moves to step pc.
Goto(c, pc) == connPc' = [connPc EXCEPT ![c] = pc]

\* interceptTLS or interceptPlain returns on connection c: its deferred
\* serverTCPConn.Close() / serverConn.Close() run if the dial had succeeded
\* (the defer statements come after the dial), InterceptAuto and the handler
\* return, and the handler's deferred conn.Close() runs.
DeferredClose_ClientOnly(c) ==
  /\ UNCHANGED upstream
  /\ clientConn' = [clientConn EXCEPT ![c] = "closed"]
DeferredClose(c) ==
  /\ upstream' = [upstream EXCEPT ![c] = IF @ = "open" THEN "closed" ELSE @]
  /\ clientConn' = [clientConn EXCEPT ![c] = "closed"]

\* A step of interceptTLS was taken on connection c, with its outcome.
TLSStep(c, name, ok) ==
  tlsSteps' = [tlsSteps EXCEPT ![c] = Append(@, [step |-> name, ok |-> ok])]

\* InterceptAuto: DetectTLSWithSNI peeks at the first bytes; with a TLS
\* ClientHello interceptTLS follows, with anything else interceptPlain, and a
\* peek error ends the connection.
DetectTLSWithSNI(c, outcome) ==
  /\ connPc[c] = "detect"
  /\ Goto(c, CASE outcome = "tls" -> "tlsDial"
               [] outcome = "plain" -> "plainDial"
               [] outcome = "error" -> "closed")
  /\ IF outcome = "error" THEN DeferredClose(c) ELSE UNCHANGED << upstream, clientConn >>
  /\ UNCHANGED << enableHTTPParsing, hasRecorder, handshakes, connSeq, sessionSeq, tlsSteps >>
  /\ MitmFrame

\* i.dialer.Dial("tcp", serverAddr), in interceptTLS and in interceptPlain:
\* an error is returned, else the TLS path goes to the server handshake and
\* the plain path straight to i.pipe.
Dial(c, ok) ==
  /\ connPc[c] \in {"tlsDial", "plainDial"}
  /\ Goto(c, IF ~ok THEN "closed"
             ELSE IF connPc[c] = "tlsDial" THEN "serverHandshake" ELSE "pipe")
  /\ IF ok THEN /\ upstream' = [upstream EXCEPT ![c] = "open"]
                /\ UNCHANGED clientConn
     ELSE DeferredClose(c)
  /\ IF connPc[c] = "tlsDial" THEN TLSStep(c, "dial", ok) ELSE UNCHANGED tlsSteps
  /\ UNCHANGED << enableHTTPParsing, hasRecorder, handshakes, connSeq, sessionSeq >>
  /\ MitmFrame

\* serverConn.Handshake().
ServerHandshake(c, ok) ==
  /\ connPc[c] = "serverHandshake"
  /\ Goto(c, IF ok THEN "getCert" ELSE "closed")
  /\ handshakes' = IF ok THEN [handshakes EXCEPT ![c] = @ + 1] ELSE handshakes
  /\ IF ok THEN UNCHANGED << upstream, clientConn >> ELSE DeferredClose(c)
  /\ TLSStep(c, "serverHandshake", ok)
  /\ UNCHANGED << enableHTTPParsing, hasRecorder, connSeq, sessionSeq >>
  /\ MitmFrame

\* i.ca.GetOrCreateCert(targetHost).
GetCert(c, ok) ==
  /\ connPc[c] = "getCert"
  /\ Goto(c, IF ok THEN "clientHandshake" ELSE "closed")
  /\ IF ok THEN UNCHANGED << upstream, clientConn >> ELSE DeferredClose(c)
  /\ TLSStep(c, "getCert", ok)
  /\ UNCHANGED << enableHTTPParsing, hasRecorder, handshakes, connSeq, sessionSeq >>
  /\ MitmFrame

\* tlsClientConn.Handshake(), then i.pipe.
ClientHandshake(c, ok) ==
  /\ connPc[c] = "clientHandshake"
  /\ Goto(c, IF ok THEN "pipe" ELSE "closed")
  /\ handshakes' = IF ok THEN [handshakes EXCEPT ![c] = @ + 1] ELSE handshakes
  /\ IF ok THEN UNCHANGED << upstream, clientConn >> ELSE DeferredClose(c)
  /\ TLSStep(c, "clientHandshake", ok)
  /\ UNCHANGED << enableHTTPParsing, hasRecorder, connSeq, sessionSeq >>
  /\ MitmFrame

\* i.pipe: pipeSimple without HTTP parsing; else pipeWithHTTPParsing, which
\* with a recorder calls i.recorder.NewSession(host): seq :=
\* r.sessionSeq.Add(1).
Pipe(c) ==
  /\ connPc[c] = "pipe"
  /\ Goto(c, "forward")
  /\ IF enableHTTPParsing /\ hasRecorder
       THEN /\ sessionSeq' = sessionSeq + 1
            /\ connSeq' = [connSeq EXCEPT ![c] = sessionSeq + 1]
       ELSE UNCHANGED << sessionSeq, connSeq >>
  /\ IF tlsSteps[c] # << >> THEN TLSStep(c, "pipe", TRUE) ELSE UNCHANGED tlsSteps
  /\ UNCHANGED << enableHTTPParsing, hasRecorder, handshakes, upstream, clientConn >>
  /\ MitmFrame

\* pipeSimple or Parser.Forward returns; the deferred Close calls run.
Forwarded(c) ==
  /\ connPc[c] = "forward"
  /\ Goto(c, "closed")
  /\ DeferredClose(c)
  /\ UNCHANGED << enableHTTPParsing, hasRecorder, handshakes, connSeq, sessionSeq, tlsSteps >>
  /\ MitmFrame

MitmNext ==
  \E c \in Conns :
    \/ \E outcome \in {"tls", "plain", "error"} : DetectTLSWithSNI(c, outcome)
    \/ \E ok \in BOOLEAN : Dial(c, ok)
    \/ \E ok \in BOOLEAN : ServerHandshake(c, ok)
    \/ \E ok \in BOOLEAN : GetCert(c, ok)
    \/ \E ok \in BOOLEAN : ClientHandshake(c, ok)
    \/ Pipe(c)
    \/ Forwarded(c)

\* C16: a connection has a session, and with it a sequence number, only when
\* both TLS handshakes completed on it.
C16_SessionOnlyAfterBothHandshakes ==
  \A c \in Conns : connSeq[c] # 0 => handshakes[c] = 2

\* The steps of interceptTLS in the order the claim gives them.
TLSOrder == << "dial", "serverHandshake", "getCert", "clientHandshake", "pipe" >>

Min(a, b) == IF a < b THEN a ELSE b

\* The first n elements of q, and what is left after them.
Take(q, n) == SubSeq(q, 1, Min(n, Len(q)))
Drop(q, n) == SubSeq(q, Min(n, Len(q)) + 1, Len(q))

\* A handshake byte is 0, the payload is the bytes 1, 2, ... in the order sent.
AcceptStart ==
  /\ payload \in 0..MaxPayload
  /\ isTLS \in BOOLEAN
  /\ totalLen \in PeekLen..(BufSize + 1)
  /\ wire = [i \in 1..HsLen |-> 0] \o Bytes(0, payload)
  /\ outBuf = << >>
  /\ hsLeft = HsLen
  /\ inBuf = << >>
  /\ accPc = "handshake"
  /\ handed = << >>
  /\ sameRead = FALSE
  /\ peeked = << >>

\* How many bytes one conn.Read into cap bytes can return: one at least, as
\* many as have arrived at most; none, with io.EOF, once the client has sent
\* everything and closed its side.
Arrivals(w, cap) == IF w = << >> THEN {0} ELSE 1..Min(cap, Len(w))

\* How many bytes the conn.Read under a bufio.Reader.Read into cap bytes can
\* return; the reader does not call it while its buffer holds bytes.
Chunks(buf, w, cap) ==
  IF buf # << >> THEN {0} ELSE Arrivals(w, IF cap >= BufSize THEN cap ELSE BufSize)

\* bufio.Reader.Read(p) with len(p) = cap, on a reader whose buffer is buf and
\* whose source is src, a source Read returning the next k bytes: buffered
\* bytes are copied without reading the source; with an empty buffer a p at
\* least as large as the buffer is read into directly, else the buffer is
\* filled by one Read and p copied from it.  EOF is returned with no bytes.
ReaderRead(buf, src, cap, k) ==
  IF buf # << >>
    THEN [data |-> Take(buf, cap), buf |-> Drop(buf, cap), src |-> src, eof |-> FALSE]
    ELSE [data |-> Take(Take(src, k), cap), buf |-> Drop(Take(src, k), cap),
          src |-> Drop(src, k), eof |-> k = 0]

\* A bufferedNetConn whose Read goes to the connection, past the reader.
BufferedNetConnRead_Conn(buf, src, cap, k) ==
  [data |-> Take(Take(src, Min(k, cap)), cap), buf |-> buf,
   src |-> Drop(src, Min(k, cap)), eof |-> src = << >>]

\* mitm.bufferedConn.Read(p): c.reader.Read(p), the dialer's reader.
BufferedConnRead(buf, src, cap, k) == ReaderRead(buf, src, cap, k)

\* bufferedNetConn.Read(p): c.reader.Read(p), the acceptor's reader.
BufferedNetConnRead(buf, src, cap, k) == ReaderRead(buf, src, cap, k)

\* The acceptor reads its handshake request through reader (http.ReadRequest,
\* io.ReadFull): one reader.Read.  When the request is complete it replies,
\* wraps conn and reader in a bufferedNetConn and calls InterceptAuto, which
\* wraps that in a PeekableConn; EOF before that ends the connection.
AcceptorRead ==
  \E k \in Chunks(outBuf, wire, hsLeft) :
    LET r == ReaderRead(outBuf, wire, hsLeft, k)
    IN /\ accPc = "handshake"
       /\ outBuf' = r.buf
       /\ wire' = r.src
       /\ hsLeft' = hsLeft - Len(r.data)
       /\ accPc' = IF r.eof THEN "closed"
                   ELSE IF hsLeft' = 0 THEN "peek" ELSE "handshake"
       /\ sameRead' = (~r.eof /\ hsLeft' = 0 /\ r.buf # << >>)
       /\ UNCHANGED << inBuf, handed, peeked >>
       /\ AcceptFrame

\* bufio.Reader.fill of PeekableConn.reader: one Read of the bufferedNetConn
\* into the free part of the buffer.
Fill(k) == BufferedNetConnRead(outBuf, wire, BufSize - Len(inBuf), k)

\* DetectTLSWithSNI: conn.Peek(6) fills until that many bytes are buffered.
\* With them, a ClientHello leads to the second Peek and anything else to
\* interceptPlain; io.EOF before them means not TLS; a full buffer is an error.
PeekFirst ==
  \E k \in Chunks(outBuf, wire, BufSize - Len(inBuf)) :
    LET r == Fill(k)
        got == inBuf \o r.data
    IN /\ accPc = "peek"
       /\ outBuf' = r.buf
       /\ wire' = r.src
       /\ inBuf' = got
       /\ IF r.eof
            THEN accPc' = "read" /\ peeked' = got
            ELSE IF Len(got) >= PeekLen
              THEN /\ accPc' = IF isTLS THEN "peekFull" ELSE "read"
                   /\ peeked' = Take(got, PeekLen)
              ELSE /\ accPc' = IF Len(got) >= BufSize THEN "closed" ELSE "peek"
                   /\ UNCHANGED peeked
       /\ UNCHANGED << hsLeft, handed, sameRead >>
       /\ AcceptFrame

\* DetectTLSWithSNI: conn.Peek(totalLen) fills until totalLen bytes are
\* buffered, the buffer is full (then Peek(Buffered()) follows) or the source
\* ends; in each case extractSNI runs on what is buffered and interceptTLS
\* follows.
PeekFull ==
  \E k \in Chunks(outBuf, wire, BufSize - Len(inBuf)) :
    /\ accPc = "peekFull"
    /\ IF Len(inBuf) >= Min(totalLen, BufSize)
         THEN /\ accPc' = "read"
              /\ UNCHANGED << outBuf, wire, inBuf >>
         ELSE LET r == Fill(k)
              IN /\ outBuf' = r.buf
                 /\ wire' = r.src
                 /\ inBuf' = inBuf \o r.data
                 /\ accPc' = IF r.eof THEN "read" ELSE "peekFull"
    /\ UNCHANGED << hsLeft, handed, sameRead, peeked >>
    /\ AcceptFrame

\* PeekableConn.Read(p) with len(p) = n, called by tls.Server on the TLS path
\* and by the forwarding loop on the plain path: c.reader.Read(p).
PeekableRead(n) ==
  \E k \in Chunks(outBuf, wire, IF n >= BufSize THEN n ELSE BufSize) :
    /\ accPc = "read"
    /\ IF inBuf # << >>
         THEN /\ handed' = handed \o Take(inBuf, n)
              /\ inBuf' = Drop(inBuf, n)
              /\ UNCHANGED << outBuf, wire, accPc >>
         ELSE LET r == BufferedNetConnRead(outBuf, wire,
                                           IF n >= BufSize THEN n ELSE BufSize, k)
              IN /\ handed' = handed \o Take(r.data, n)
                 /\ inBuf' = Drop(r.data, n)
                 /\ outBuf' = r.buf
                 /\ wire' = r.src
                 /\ accPc' = IF r.eof THEN "eof" ELSE "read"
    /\ UNCHANGED << hsLeft, sameRead, peeked >>
    /\ AcceptFrame

AcceptNext ==
  \/ AcceptorRead
  \/ PeekFirst
  \/ PeekFull
  \/ \E n \in 1..MaxRead : PeekableRead(n)

\* C17: from the moment the acceptor's handshake is done, the bytes handed to
\* the interceptor followed by those still buffered or not yet read are the
\* client's payload, in order and each once; at EOF all of it was handed over.
C17_HandedStreamIsThePayload ==
  /\ accPc \in {"peek", "peekFull", "read", "eof"} =>
       handed \o inBuf \o outBuf \o wire = Bytes(0, payload)
  /\ accPc = "eof" => handed = Bytes(0, payload)

\* Payload bytes arrived in the read that completed the handshake, the sniffer
\* peeked at them twice, and the interceptor has then read the whole payload.
C17_Witness ==
  /\ accPc = "eof"
  /\ sameRead
  /\ isTLS
  /\ Len(peeked) = PeekLen
  /\ payload > PeekLen
  /\ handed = Bytes(0, payload)

\* ========================================================== Parser.Forward

\* The destination of a direction, and the other direction.
Dst(d) == IF d = "C2S" THEN "server" ELSE "client"
Opposite(d) == IF d = "C2S" THEN "S2C" ELSE "C2S"

\* closeWrite's type assertion conn.(interface{ CloseWrite() error }).  After
\* interceptTLS both connections are *tls.Conn, which has CloseWrite.  After
\* interceptPlain the server is the dialed *net.TCPConn, which has it, and
\* the client is the *PeekableConn, whose method set is that of the embedded
\* net.Conn interface plus Peek and Read: it has no CloseWrite.
SupportsCloseWrite(conn) == conn = "server" \/ tlsPath

\* The CloseWrite calls one closeWrite(conn) makes.
CloseWriteCalls(conn) == IF SupportsCloseWrite(conn) THEN 1 ELSE 0

FwdStart ==
  /\ reads = [d \in Directions |-> 0]
  /\ dirPc = [d \in Directions |-> "read"]
  /\ mirrorPc = [d \in Directions |-> "parse"]
  /\ pipeClosed = [d \in Directions |-> FALSE]
  /\ endedBy = [d \in Directions |-> "none"]
  /\ errChan = [d \in Directions |-> "none"]
  /\ closeWrites = [conn \in {"client", "server"} |-> 0]
  /\ fwdPc = "wait"
  /\ fwdRet = "none"

\* io.Copy(dst, tee) of direction d leaves its loop.
CopyReturns(d, why) ==
  /\ endedBy' = [endedBy EXCEPT ![d] = why]
  /\ dirPc' = [dirPc EXCEPT ![d] = "closePw"]

\* tee.Read: src.Read returns data, which the TeeReader then writes to pw, or
\* io.EOF, or an error; the source delivers FwdReads reads at most.
FwdSrcRead(d, out) ==
  /\ dirPc[d] = "read"
  /\ IF out = "data"
       THEN /\ reads[d] < FwdReads
            /\ reads' = [reads EXCEPT ![d] = @ + 1]
            /\ dirPc' = [dirPc EXCEPT ![d] = "tee"]
            /\ UNCHANGED endedBy
       ELSE /\ CopyReturns(d, out)
            /\ UNCHANGED reads
  /\ UNCHANGED << mirrorPc, pipeClosed, errChan, closeWrites, fwdPc, fwdRet >>
  /\ FwdFrame

\* The parser task of direction d, in parseStream or in the drain that
\* follows it, reads what pw.Write offers: the write returns and io.Copy goes
\* on to dst.Write.
MirrorTake(d) ==
  /\ dirPc[d] = "tee"
  /\ mirrorPc[d] \in {"parse", "drain"}
  /\ dirPc' = [dirPc EXCEPT ![d] = "write"]
  /\ UNCHANGED << reads, mirrorPc, pipeClosed, endedBy, errChan, closeWrites, fwdPc,
                  fwdRet >>
  /\ FwdFrame

\* parseStream returns on bytes that are not HTTP; io.Copy(io.Discard, pr)
\* follows.
MirrorParseFails(d) ==
  /\ mirrorPc[d] = "parse"
  /\ mirrorPc' = [mirrorPc EXCEPT ![d] = "drain"]
  /\ UNCHANGED << reads, dirPc, pipeClosed, endedBy, errChan, closeWrites, fwdPc, fwdRet >>
  /\ FwdFrame

\* After pw.Close() the parser's read returns io.EOF: parseStream returns,
\* and the drain that follows returns at once and closes parserDone.
MirrorEOF(d) ==
  /\ pipeClosed[d]
  /\ mirrorPc[d] \in {"parse", "drain"}
  /\ mirrorPc' = [mirrorPc EXCEPT ![d] = IF mirrorPc[d] = "parse" THEN "drain" ELSE "done"]
  /\ UNCHANGED << reads, dirPc, pipeClosed, endedBy, errChan, closeWrites, fwdPc, fwdRet >>
  /\ FwdFrame

\* dst.Write in io.Copy: it succeeds and the loop reads on, or it fails and
\* io.Copy returns the error.
FwdDstWrite(d, ok) ==
  /\ dirPc[d] = "write"
  /\ IF ok
       THEN dirPc' = [dirPc EXCEPT ![d] = "read"] /\ UNCHANGED endedBy
       ELSE CopyReturns(d, "dstErr")
  /\ UNCHANGED << reads, mirrorPc, pipeClosed, errChan, closeWrites, fwdPc, fwdRet >>
  /\ FwdFrame

\* A pipeWithMirror that goes to the wait without closing the pipe writer.
ClosePw_Skip(d) ==
  /\ dirPc[d] = "closePw"
  /\ dirPc' = [dirPc EXCEPT ![d] = "wait"]
  /\ UNCHANGED << reads, mirrorPc, pipeClosed, endedBy, errChan, closeWrites, fwdPc,
                  fwdRet >>
  /\ FwdFrame

\* pw.Close().
ClosePw(d) ==
  /\ dirPc[d] = "closePw"
  /\ pipeClosed' = [pipeClosed EXCEPT ![d] = TRUE]
  /\ dirPc' = [dirPc EXCEPT ![d] = "wait"]
  /\ UNCHANGED << reads, mirrorPc, endedBy, errChan, closeWrites, fwdPc, fwdRet >>
  /\ FwdFrame

\* <-parserDone, pipeWithMirror returns err, and the goroutine of Forward
\* sends it on its channel of capacity 1.
ParserDone(d) ==
  /\ dirPc[d] = "wait"
  /\ mirrorPc[d] = "done"
  /\ errChan' = [errChan EXCEPT ![d] = IF endedBy[d] = "eof" THEN "nil" ELSE endedBy[d]]
  /\ dirPc' = [dirPc EXCEPT ![d] = "closeWrite"]
  /\ UNCHANGED << reads, mirrorPc, pipeClosed, endedBy, closeWrites, fwdPc, fwdRet >>
  /\ FwdFrame

\* closeWrite(dst), then the deferred wg.Done().
CloseWrite(d) ==
  /\ dirPc[d] = "closeWrite"
  /\ closeWrites' = [closeWrites EXCEPT ![Dst(d)] = @ + CloseWriteCalls(Dst(d))]
  /\ dirPc' = [dirPc EXCEPT ![d] = "done"]
  /\ UNCHANGED << reads, mirrorPc, pipeClosed, endedBy, errChan, fwdPc, fwdRet >>
  /\ FwdFrame

\* wg.Wait() returns; Forward returns the error of the client-to-server
\* direction if there is one, else that of the other direction, else nil.
ForwardReturns ==
  /\ fwdPc = "wait"
  /\ \A d \in Directions : dirPc[d] = "done"
  /\ fwdPc' = "returned"
  /\ fwdRet' = IF errChan["C2S"] # "nil" THEN errChan["C2S"] ELSE errChan["S2C"]
  /\ UNCHANGED << reads, dirPc, mirrorPc, pipeClosed, endedBy, errChan, closeWrites >>
  /\ FwdFrame

FwdNext ==
  \/ \E d \in Directions :
       \/ \E out \in {"data", "eof", "err"} : FwdSrcRead(d, out)
       \/ MirrorTake(d)
       \/ MirrorParseFails(d)
       \/ MirrorEOF(d)
       \/ \E ok \in BOOLEAN : FwdDstWrite(d, ok)
       \/ ClosePw(d)
       \/ ParserDone(d)
       \/ CloseWrite(d)
  \/ ForwardReturns

\* What the scheduler and the environment owe: every source read and every
\* destination write returns, every goroutine that can step does.  A parser
\* is not owed a parse failure.
FwdFair ==
  /\ \A d \in Directions :
       /\ WF_vars(\E out \in {"data", "eof", "err"} : FwdSrcRead(d, out))
       /\ WF_vars(MirrorTake(d))
       /\ WF_vars(MirrorEOF(d))
       /\ WF_vars(\E ok \in BOOLEAN : FwdDstWrite(d, ok))
       /\ WF_vars(ClosePw(d))
       /\ WF_vars(ParserDone(d))
       /\ WF_vars(CloseWrite(d))
  /\ WF_vars(ForwardReturns)

\* C18: with sources that end, Forward eventually returns; when it has
\* returned both forwarding goroutines and both parser tasks have finished;
\* and once the copy loop of a direction has ended its parser task finishes.
C18_ForwardReturnsAfterAllTasks ==
  /\ <>(fwdPc = "returned")
  /\ [](fwdPc = "returned" =>
          \A d \in Directions : dirPc[d] = "done" /\ mirrorPc[d] = "done")
  /\ \A d \in Directions : (endedBy[d] # "none") ~> (mirrorPc[d] = "done")

\* Both sources delivered all their reads and reached EOF, no parser failed
\* early on, and Forward has returned nil.
C18_Witness ==
  /\ fwdPc = "returned"
  /\ fwdRet = "nil"
  /\ \A d \in Directions : reads[d] = FwdReads /\ endedBy[d] = "eof"

\* C19: when a direction has ended, the write side of its destination was
\* closed exactly once, and not before that direction's parser task had
\* finished; a direction ends only by its own source or its own write.
C19_DestinationClosedOnceAfterParser ==
  \A d \in Directions :
    /\ dirPc[d] = "done" => closeWrites[Dst(d)] = 1
    /\ closeWrites[Dst(d)] > 0 => mirrorPc[d] = "done"
    /\ closeWrites[Dst(d)] <= 1
    /\ dirPc[d] \notin {"read", "tee", "write"} => endedBy[d] # "none"

\* ================================================ ParseMessage / LogGRPC

\* The payloads a frame can carry once decompressed: nothing, the two bytes
\* "{}", two other bytes, and a longer message.
Payloads == { << >>, << "{", "}" >>, << "a", "b" >>, << "a", "b", "c" >> }

\* The service and method ParseMethodFromURL takes from the request path.
Service == "unknown.v1.Svc"
Method == "M"

\* What ReadFrame can meet on the wire and what decoding the frame will meet:
\* the compressed flag, whether the payload on the wire is a gzip member, the
\* payload (before compression), the parser's registry (none, one without the
\* method's type, one with it), whether proto.Unmarshal and protojson's
\* Marshal succeed.
Wire ==
  [compressed : BOOLEAN, gzipOK : BOOLEAN, bytes : Payloads,
   registry : {"nil", "unknown", "known"}, unmarshalOK : BOOLEAN, marshalOK : BOOLEAN]

\* A gzip member is written as the byte "gz" (its header) before the bytes it
\* holds.  The payload bytes of the frame w on the wire.
Gzip(plain) == << "gz" >> \o plain
RawData(w) == IF w.compressed /\ w.gzipOK THEN Gzip(w.bytes) ELSE w.bytes

\* decompressGzip: empty data is returned as it is; data that does not begin
\* a gzip member is an error.
DecompressGzip(data) ==
  IF Len(data) = 0 THEN [ok |-> TRUE, data |-> data]
  ELSE IF Head(data) = "gz" THEN [ok |-> TRUE, data |-> Tail(data)]
  ELSE [ok |-> FALSE, data |-> << >>]

NoFrame ==
  [compressed |-> FALSE, isNil |-> TRUE, data |-> << >>, raw |-> << >>, registry |-> "nil",
   unmarshalOK |-> FALSE, marshalOK |-> FALSE]
NoMsg == [JSON |-> "", Error |-> "", outcome |-> "none"]
NoGRPCRecord ==
  [type |-> "none", grpc_data |-> "", error |-> "", size |-> 0, grpc_raw |-> << >>]

GRPCStart ==
  /\ grpcPc = "read"
  /\ grpcFrame = NoFrame
  /\ grpcMsg = NoMsg
  /\ grpcRec = NoGRPCRecord
  /\ outcomes = {}

\* Lines 565-583 of ReadFrame: RawData is the payload as read; Data is the
\* payload, decompressed when the flag is set, and nil when that fails.
FrameOf(w) ==
  LET raw == RawData(w)
      d == DecompressGzip(raw)
  IN [compressed |-> w.compressed,
      isNil |-> w.compressed /\ ~d.ok,
      data |-> IF w.compressed THEN d.data ELSE raw,
      raw |-> raw,
      registry |-> w.registry,
      unmarshalOK |-> w.unmarshalOK,
      marshalOK |-> w.marshalOK]

\* GRPCParser.ReadFrame returning a frame.
ReadFrame ==
  \E w \in Wire :
    /\ grpcPc = "read"
    /\ w.compressed \/ w.gzipOK
    /\ grpcFrame' = FrameOf(w)
    /\ grpcPc' = "parse"
    /\ grpcRec' = NoGRPCRecord
    /\ UNCHANGED << grpcMsg, outcomes >>
    /\ GRPCFrameOthers

\* The JSON text protojson renders for a decoded message: never empty.
RenderJSON(data) == IF Len(data) > 2 THEN "{\"f\":1}" ELSE "{\"f\":0}"

\* fmt's %v of a bool.
BoolText(b) == IF b THEN "true" ELSE "false"

\* GRPCParser.ParseMessage, its returns in the order of the code.
ParseMessageOf(f, service, method, isRequest) ==
  IF f.compressed /\ f.isNil
    THEN [JSON |-> "", Error |-> "gzip decompression failed", outcome |-> "gzip"]
  ELSE IF f.data = << "{", "}" >>
    THEN [JSON |-> "{}", Error |-> "", outcome |-> "literal"]
  ELSE IF Len(f.data) = 0
    THEN [JSON |-> "{}", Error |-> "", outcome |-> "empty"]
  ELSE IF f.registry = "nil"
    THEN [JSON |-> "", Error |-> "no message registry", outcome |-> "noRegistry"]
  ELSE IF f.registry = "unknown"
    THEN [JSON |-> "",
          Error |-> "unknown message type for " \o service \o "/" \o method
                      \o " (request=" \o BoolText(isRequest) \o ")",
          outcome |-> "unknownType"]
  ELSE IF ~f.unmarshalOK
    THEN [JSON |-> "", Error |-> "unmarshal error", outcome |-> "unmarshal"]
  ELSE IF ~f.marshalOK
    THEN [JSON |-> "", Error |-> "json marshal error", outcome |-> "marshal"]
  ELSE [JSON |-> RenderJSON(f.data), Error |-> "", outcome |-> "success"]

ParseMessage ==
  \E isRequest \in BOOLEAN :
    /\ grpcPc = "parse"
    /\ grpcMsg' = ParseMessageOf(grpcFrame, Service, Method, isRequest)
    /\ grpcPc' = "log"
    /\ UNCHANGED << grpcFrame, grpcRec, outcomes >>
    /\ GRPCFrameOthers

\* The value of each byte the payloads are made of.
ByteCode(ch) ==
  CASE ch = "{" -> 123
    [] ch = "}" -> 125
    [] ch = "a" -> 97
    [] ch = "b" -> 98
    [] ch = "c" -> 99
    [] ch = "gz" -> 31

\* base64.StdEncoding.EncodeToString: three bytes give four characters, a
\* last group of one or two bytes is padded with "=".  A character is written
\* as its index in the alphabet, "=" as 64.
RECURSIVE Base64(_)
Base64(data) ==
  LET b(i) == IF i <= Len(data) THEN ByteCode(data[i]) ELSE 0
      n == b(1) * 65536 + b(2) * 256 + b(3)
      c1 == n \div 262144
      c2 == (n \div 4096) % 64
      c3 == (n \div 64) % 64
      c4 == n % 64
  IN IF Len(data) = 0 THEN << >>
     ELSE IF Len(data) = 1 THEN << c1, c2, 64, 64 >>
     ELSE IF Len(data) = 2 THEN << c1, c2, c3, 64 >>
     ELSE << c1, c2, c3, c4 >> \o Base64(SubSeq(data, 4, Len(data)))

\* A LogGRPC that fills grpc_data for every message.
RecordOf_AlwaysData(msg, f) ==
  [type |-> "grpc",
   grpc_data |-> IF msg.JSON # "" THEN msg.JSON ELSE "null",
   error |-> msg.Error,
   size |-> 0,
   grpc_raw |-> IF msg.Error # "" /\ Len(f.data) > 0 THEN Base64(f.data) ELSE << >>]

\* Session.LogGRPC: GRPCData is msg.JSON when there is one, else Size is the
\* length of the frame's data; Error is msg.Error, and with an error the raw
\* data is added when the frame has any.
RecordOf(msg, f) ==
  [type |-> "grpc",
   grpc_data |-> msg.JSON,
   error |-> msg.Error,
   size |-> IF msg.JSON = "" THEN Len(f.data) ELSE 0,
   grpc_raw |-> IF msg.Error # "" /\ Len(f.data) > 0 THEN Base64(f.data) ELSE << >>]

\* A string field tagged omitempty is in the JSON line when it is not empty.
Present(field) == field # ""

LogGRPC ==
  /\ grpcPc = "log"
  /\ grpcRec' = RecordOf(grpcMsg, grpcFrame)
  /\ outcomes' = outcomes \cup {grpcMsg.outcome}
  /\ grpcPc' = "read"
  /\ grpcFrame' = NoFrame
  /\ grpcMsg' = NoMsg
  /\ GRPCFrameOthers

GRPCNext ==
  \/ ReadFrame
  \/ ParseMessage
  \/ LogGRPC

\* C20: every grpc record LogGRPC writes has exactly one of grpc_data and
\* error present.
C20_ExactlyOneOfDataAndError ==
  grpcRec.type = "grpc" => (Present(grpcRec.grpc_data) # Present(grpcRec.error))

\* Every decode outcome has been logged, the last one a JSON rendering failure.
C20_Witness ==
  /\ outcomes = {"gzip", "literal", "empty", "noRegistry", "unknownType", "unmarshal",
                 "marshal", "success"}
  /\ grpcRec.error = "json marshal error"
  /\ ~Present(grpcRec.grpc_data)

\* C21: a frame whose compressed flag is set and whose payload fails gzip
\* decompression is logged as a grpc record with error "gzip decompression
\* failed" and grpc_raw the base64 of the frame's raw payload bytes.
C21_GzipFailureRecordHasRawPayload ==
  [][(grpcPc = "log" /\ grpcFrame.compressed /\ grpcFrame.isNil) =>
       /\ grpcRec'.type = "grpc"
       /\ grpcRec'.error = "gzip decompression failed"
       /\ grpcRec'.grpc_raw = Base64(grpcFrame.raw)]_vars

\* ========================================= parseRequests / parseResponses

Pairs == 1..NPairs

EmptySlot == [path |-> 0, isGRPC |-> FALSE]

NoRoute == [kind |-> "none", path |-> 0, slotEmpty |-> FALSE]

CorrStart ==
  /\ reqPc = "read"
  /\ reqN = 0
  /\ respPc = "read"
  /\ respN = 0
  /\ slot = EmptySlot
  /\ popped = EmptySlot
  /\ route = [j \in Pairs |-> NoRoute]
  /\ corrRecs = {}

\* http.ReadRequest returns the next request.  The bytes reach the parser's
\* buffer before they are forwarded, and the client sends request i only
\* after it has received response i-1 (no pipelining), which the response
\* side has then already read from its mirror.
ReadRequest ==
  /\ reqPc = "read"
  /\ reqN < NPairs
  /\ respN >= reqN
  /\ reqN' = reqN + 1
  /\ reqPc' = "log"
  /\ UNCHANGED << reqs, resps, respPc, respN, slot, popped, route, corrRecs >>
  /\ CorrFrame

\* p.logger.LogRequest(msg), then the content-type test of line 224.
LogRequest ==
  /\ reqPc = "log"
  /\ corrRecs' = corrRecs \cup {[type |-> "request", n |-> reqN, path |-> reqN]}
  /\ reqPc' = IF reqs[reqN] THEN "slot" ELSE "body"
  /\ UNCHANGED << reqs, resps, reqN, respPc, respN, slot, popped, route >>
  /\ CorrFrame

\* Lines 226-230: under lastRequestMutex, store the path and the gRPC flag.
SlotWrite ==
  /\ reqPc = "slot"
  /\ slot' = [path |-> reqN, isGRPC |-> TRUE]
  /\ reqPc' = "body"
  /\ UNCHANGED << reqs, resps, reqN, respPc, respN, popped, route, corrRecs >>
  /\ CorrFrame

\* parseGRPCBody(bodyReader, req.URL.Path, true, ...) for a gRPC request,
\* logBody for any other; then the loop reads the next request.
RequestBody ==
  /\ reqPc = "body"
  /\ corrRecs' = corrRecs \cup
       {[type |-> IF reqs[reqN] THEN "grpc" ELSE "body", n |-> reqN, path |-> reqN]}
  /\ reqPc' = "read"
  /\ UNCHANGED << reqs, resps, reqN, respPc, respN, slot, popped, route >>
  /\ CorrFrame

\* http.ReadResponse returns the next response, or an error that ends
\* parseResponses.  Response j is on the wire only after request j was
\* forwarded, hence after the request side has read it from its mirror.
ReadResponse ==
  /\ respPc = "read"
  /\ respN < NPairs
  /\ reqN > respN
  /\ respN' = respN + 1
  /\ respPc' = IF resps[respN + 1] = "malformed" THEN "stopped" ELSE "log"
  /\ UNCHANGED << reqs, resps, reqPc, reqN, slot, popped, route, corrRecs >>
  /\ CorrFrame

\* p.logger.LogResponse(msg).
LogResponse ==
  /\ respPc = "log"
  /\ corrRecs' = corrRecs \cup {[type |-> "response", n |-> respN, path |-> 0]}
  /\ respPc' = "pop"
  /\ UNCHANGED << reqs, resps, reqPc, reqN, respN, slot, popped, route >>
  /\ CorrFrame

\* Lines 270-277: under lastRequestMutex, read the slot and clear it.
PopSlot ==
  /\ respPc = "pop"
  /\ popped' = slot
  /\ slot' = EmptySlot
  /\ respPc' = "route"
  /\ UNCHANGED << reqs, resps, reqPc, reqN, respN, route, corrRecs >>
  /\ CorrFrame

\* Where lines 280-305 send the body of a response of content-type class ct,
\* given the popped path and flag.
RouteOf(ct, p) ==
  IF ct = "grpc" /\ p.path # 0 THEN "grpc"
  ELSE IF p.isGRPC /\ p.path # 0 THEN "grpcStream"
  ELSE IF ct = "sse" THEN "sse"
  ELSE "body"

\* A routing that answers an empty slot with an error record.
RouteResponse_ErrorOnEmpty ==
  /\ respPc = "route"
  /\ LET k == RouteOf(resps[respN], popped)
     IN /\ route' = [route EXCEPT ![respN] =
                       [kind |-> k, path |-> popped.path, slotEmpty |-> popped.path = 0]]
        /\ corrRecs' = corrRecs \cup
             IF popped.path = 0
               THEN {[type |-> "error", n |-> respN, path |-> 0]}
               ELSE {[type |-> "grpc", n |-> respN, path |-> popped.path]}
  /\ respPc' = "read"
  /\ UNCHANGED << reqs, resps, reqPc, reqN, respN, slot, popped >>
  /\ CorrFrame

\* Lines 280-305: route the body and emit its records; then the loop reads
\* the next response.
RouteResponse ==
  /\ respPc = "route"
  /\ LET k == RouteOf(resps[respN], popped)
     IN /\ route' = [route EXCEPT ![respN] =
                       [kind |-> k, path |-> popped.path, slotEmpty |-> popped.path = 0]]
        /\ corrRecs' = corrRecs \cup
             {[type |-> IF k \in {"grpc", "grpcStream"} THEN "grpc" ELSE k,
               n |-> respN,
               path |-> IF k \in {"grpc", "grpcStream"} THEN popped.path ELSE 0]}
  /\ respPc' = "read"
  /\ UNCHANGED << reqs, resps, reqPc, reqN, respN, slot, popped >>
  /\ CorrFrame

CorrNext ==
  \/ ReadRequest
  \/ LogRequest
  \/ SlotWrite
  \/ RequestBody
  \/ ReadResponse
  \/ LogResponse
  \/ PopSlot
  \/ RouteResponse

\* C6: every response to a request recognised as gRPC/Connect is decoded as
\* gRPC with the path of the request it answers.
C6_ResponseDecodedWithItsRequestPath ==
  \A j \in Pairs :
    (route[j].kind # "none" /\ reqs[j]) =>
      (route[j].kind \in {"grpc", "grpcStream"} /\ route[j].path = j)

C29_GRPCResponseDecodedWhateverTheSlot ==
  \A j \in Pairs :
    (route[j].kind # "none" /\ resps[j] = "grpc") => route[j].kind = "grpc"

\* C30: a response whose content-type is not gRPC/Connect goes to the
\* envelope-framed gRPC decoder only if the popped slot held a gRPC request
\* and the content-type is text/event-stream; with text/event-stream and no
\* pending gRPC request to the SSE event parser; in every other case to the
\* bulk-body path.
C30_NonGRPCResponseRouting ==
  \A j \in Pairs :
    (route[j].kind # "none" /\ resps[j] \in {"sse", "other"}) =>
      route[j].kind = (IF ~route[j].slotEmpty /\ resps[j] = "sse" THEN "grpcStream"
                       ELSE IF resps[j] = "sse" THEN "sse"
                       ELSE "body")

\* ================================== parseGRPCBody / parseGRPCStream per body

\* ReadFrame's sanity limit on the declared length.
MaxFrameLen == 16777216

\* The 4-byte big-endian length field of a frame header, byte by byte.
LengthField(n) == << n \div 16777216, (n \div 65536) % 256, (n \div 256) % 256, n % 256 >>
HugeField == << 255, 255, 255, 255 >>

\* binary.BigEndian.Uint32 of a field below 2^31, and line 555's test
\* length > 16*1024*1024, decided on the leading byte for the fields above.
Uint32(b) == ((b[1] * 256 + b[2]) * 256 + b[3]) * 256 + b[4]
FrameTooLarge(b) == IF b[1] >= 128 THEN TRUE ELSE Uint32(b) > MaxFrameLen

\* Content types, lower-cased, as the media type followed by what comes after it.
ContentTypes ==
  { << "application/grpc" >>, << "application/grpc", "+proto" >>,
    << "application/connect+proto" >>, << "application/proto" >>,
    << "text/event-stream" >>, << "text/plain" >> }

\* A header value is a sequence of segments whose concatenation is the string;
\* no media-type segment is the beginning of another one, so that one string
\* begins with another exactly when its segments begin with the other's.
HasPrefix(s, prefix) ==
  Len(s) >= Len(prefix) /\ SubSeq(s, 1, Len(prefix)) = prefix

\* strings.ToLower, segment by segment.
LowerOf(seg) ==
  CASE seg = "Application/GRPC" -> "application/grpc"
    [] seg = "Application/Connect+JSON" -> "application/connect+json"
    [] OTHER -> seg
ToLower(s) == [i \in 1..Len(s) |-> LowerOf(s[i])]

\* ParseContentType, IsGRPCContentType and HasEnvelopeFraming.
ParseContentType(contentType) ==
  LET ct == ToLower(contentType)
  IN [IsGRPC |-> HasPrefix(ct, << "application/grpc" >>),
      IsConnectProto |-> \/ ct = << "application/proto" >>
                         \/ HasPrefix(ct, << "application/proto", ";" >>),
      IsConnectStreamProto |-> HasPrefix(ct, << "application/connect+proto" >>),
      IsConnectJSON |-> \/ ct = << "application/json" >>
                        \/ HasPrefix(ct, << "application/json", ";" >>)]
IsGRPCContentType(ct) ==
  LET info == ParseContentType(ct)
  IN info.IsGRPC \/ info.IsConnectProto \/ info.IsConnectStreamProto
HasEnvelopeFraming(ct) ==
  LET info == ParseContentType(ct)
  IN info.IsGRPC \/ info.IsConnectStreamProto

\* The class parseResponses' tests put a response's content-type in.
CtClass(ct) ==
  IF IsGRPCContentType(ct) THEN "grpc"
  ELSE IF ct[1] = "text/event-stream" THEN "sse"
  ELSE "other"

\* The messages a task can read: requests carry a method, responses meet a
\* pending-request slot that holds a gRPC request or is empty.
Heads ==
  [post : BOOLEAN, ct : ContentTypes, pending : BOOLEAN]
NoHead == [post |-> FALSE, ct |-> << "text/plain" >>, pending |-> FALSE]

\* The frames a body can hold; the parser always has a registry
\* (interceptor.go lines 270-275).
StreamWire ==
  { w \in Wire : /\ w.compressed \/ w.gzipOK
                 /\ w.bytes \in { << >>, << "a", "b" >> }
                 /\ w.registry \in {"unknown", "known"}
                 /\ w.unmarshalOK /\ w.marshalOK }

\* What ReadFrame finds next in the body: how many of the 5 header bytes are
\* left in it, the length the header declares, how many payload bytes are
\* left, and the frame the bytes make.
StreamInputs ==
  { [hdr |-> h, length |-> LengthField(0), avail |-> 0,
     w |-> CHOOSE w \in StreamWire : TRUE] : h \in {0, 3} }
  \cup
  { [hdr |-> 5, length |-> l, avail |-> 0, w |-> CHOOSE w \in StreamWire : TRUE] :
      l \in {LengthField(MaxFrameLen + 1), HugeField} }
  \cup
  { [hdr |-> 5, length |-> LengthField(Len(RawData(w))), avail |-> a, w |-> w] :
      w \in StreamWire, a \in 0..3 }

\* Lines 546-563 of ReadFrame: the error it returns, "nil" for none.
\* io.ReadFull returns EOF when it read nothing and ErrUnexpectedEOF when it
\* read less than it was asked for.
ReadFrameErr(in) ==
  IF in.hdr = 0 THEN "EOF"
  ELSE IF in.hdr < 5 THEN "unexpected EOF"
  ELSE IF FrameTooLarge(in.length) THEN "frame too large"
  ELSE IF in.avail >= Uint32(in.length) THEN "nil"
  ELSE IF in.avail = 0 THEN "EOF"
  ELSE "unexpected EOF"

NoLast ==
  [rec |-> NoGRPCRecord, streaming |-> FALSE, frame_index |-> 0, compressed |-> FALSE,
   outcome |-> "none", payload |-> << >>]

StreamStart ==
  /\ stPc = "head"
  /\ bodyNo = 0
  /\ head = NoHead
  /\ frameIndex = 0
  /\ wireNo = 0
  /\ stRecs = << >>
  /\ stLast = NoLast
  /\ readErr = "none"
  /\ prevFrames = 0
  /\ sawHuge = FALSE
  /\ lateRec = FALSE

\* A record of the session's log, with the fields the claims speak of.
\* nth: the frame of the body the record was made from (0: none).
Rec(type, streaming, index, nth) ==
  [type |-> type, streaming |-> streaming, frame_index |-> index, nth |-> nth]
Plain(type) == Rec(type, FALSE, 0, 0)

GRPCRecs(recs) == SelectSeq(recs, LAMBDA r : r.type = "grpc")

\* Session.Debug: a record of type debug, at log level debug only.
Debug(level) == IF level = "debug" THEN << Plain("debug") >> ELSE << >>

\* Where parseRequests (lines 222-239) and parseResponses (lines 279-305)
\* send the body of the message h.
BodyPath(isReq, h) ==
  IF isReq
    THEN IF IsGRPCContentType(h.ct) /\ h.post THEN "grpc" ELSE "body"
    ELSE RouteOf(CtClass(h.ct),
                 IF h.pending THEN [path |-> 1, isGRPC |-> TRUE] ELSE EmptySlot)

\* http.ReadRequest / ReadResponse returns the next message: LogRequest or
\* LogResponse, then the body goes to parseGRPCBody (and from there, lines
\* 334-340, to parseGRPCStream when the content-type has envelope framing),
\* to parseGRPCStream, to parseSSEEvents or to logBody, which emit a record
\* when the body holds an event or a byte.
StreamBegin ==
  \E h \in Heads, some \in BOOLEAN :
    /\ stPc = "head"
    /\ bodyNo < MaxBodies
    /\ IF stIsRequest THEN ~h.pending ELSE ~h.post
    /\ LET k == BodyPath(stIsRequest, h)
           first == << Plain(IF stIsRequest THEN "request" ELSE "response") >>
       IN /\ stPc' = IF k = "grpcStream" \/ (k = "grpc" /\ HasEnvelopeFraming(h.ct))
                       THEN "frames"
                     ELSE IF k = "grpc" THEN "unary"
                     ELSE "head"
          /\ stRecs' = IF k \in {"sse", "body"} /\ some THEN first \o << Plain(k) >> ELSE first
          /\ k \in {"grpc", "grpcStream"} => ~some
    /\ head' = h
    /\ bodyNo' = bodyNo + 1
    /\ frameIndex' = 0
    /\ wireNo' = 0
    /\ readErr' = "none"
    /\ prevFrames' = Len(GRPCRecs(stRecs))
    /\ lateRec' = (lateRec \/ sawHuge)
    /\ stLast' = NoLast
    /\ UNCHANGED sawHuge
    /\ StreamFrameOthers

\* A frameIndex that is not advanced.
NextFrameIndex_Stuck(i) == i

\* Line 388: frameIndex++.
NextFrameIndex(i) == i + 1

\* Lines 374-393 of parseGRPCStream, ReadFrame having returned a frame: parse
\* it, mark the message (streaming, frame index, compressed flag), log it.
StreamLogFrame ==
  \E in \in StreamInputs :
    /\ stPc = "frames"
    /\ wireNo < MaxFrames
    /\ ReadFrameErr(in) = "nil"
    /\ LET f == FrameOf(in.w)
           msg == ParseMessageOf(f, Service, Method, stIsRequest)
       IN /\ stLast' = [rec |-> RecordOf(msg, f), streaming |-> TRUE,
                        frame_index |-> frameIndex, compressed |-> f.compressed,
                        outcome |-> msg.outcome, payload |-> f.raw]
          /\ stRecs' = Append(stRecs, Rec("grpc", TRUE, frameIndex, wireNo + 1))
    /\ frameIndex' = NextFrameIndex(frameIndex)
    /\ wireNo' = wireNo + 1
    /\ lateRec' = (lateRec \/ sawHuge)
    /\ UNCHANGED << stPc, bodyNo, head, readErr, prevFrames, sawHuge >>
    /\ StreamFrameOthers

\* Lines 375-377 and 396: ReadFrame returns io.EOF; the loop ends and the
\* body is closed.
StreamEOF ==
  \E in \in StreamInputs :
    /\ stPc = "frames"
    /\ ReadFrameErr(in) = "EOF"
    /\ readErr' = IF in.hdr = 0 THEN "EOF" ELSE "EOF after header"
    /\ stPc' = "head"
    /\ UNCHANGED << bodyNo, head, frameIndex, wireNo, stRecs, stLast, prevFrames, sawHuge,
                    lateRec >>
    /\ StreamFrameOthers

\* Lines 378-381 and 396: ReadFrame returns another error; p.logger.Debug,
\* the loop ends and bodyReader.Close() closes the HTTP body, which reads it
\* to its end, so that the task's loop goes on with the next message.
StreamFrameError ==
  \E in \in StreamInputs :
    /\ stPc = "frames"
    /\ ReadFrameErr(in) \in {"unexpected EOF", "frame too large"}
    /\ readErr' = ReadFrameErr(in)
    /\ stRecs' = stRecs \o Debug(logLevel)
    /\ sawHuge' = (sawHuge \/ in.length = HugeField)
    /\ stPc' = "head"
    /\ UNCHANGED << bodyNo, head, frameIndex, wireNo, stLast, prevFrames, lateRec >>
    /\ StreamFrameOthers

\* Lines 342-362 of parseGRPCBody, a body without framing: ReadAll; on an
\* error Debug and return; nothing for an empty body; else the whole body is
\* one frame (parseConnectProtoBody), logged as it comes from ParseMessage.
StreamUnary ==
  \E w \in StreamWire, readOK \in BOOLEAN :
    /\ stPc = "unary"
    /\ ~w.compressed
    /\ LET f == [FrameOf(w) EXCEPT !.raw = << >>]
           msg == ParseMessageOf(f, Service, Method, stIsRequest)
       IN IF ~readOK
            THEN /\ stRecs' = stRecs \o Debug(logLevel)
                 /\ readErr' = "unexpected EOF"
                 /\ UNCHANGED << stLast, lateRec >>
          ELSE IF Len(w.bytes) = 0
            THEN /\ readErr' = "EOF"
                 /\ UNCHANGED << stRecs, stLast, lateRec >>
          ELSE /\ stLast' = [rec |-> RecordOf(msg, f), streaming |-> FALSE,
                             frame_index |-> 0, compressed |-> FALSE,
                             outcome |-> msg.outcome, payload |-> w.bytes]
               /\ stRecs' = Append(stRecs, Rec("grpc", FALSE, 0, 1))
               /\ readErr' = "EOF"
               /\ lateRec' = (lateRec \/ sawHuge)
    /\ stPc' = "head"
    /\ UNCHANGED << bodyNo, head, frameIndex, wireNo, prevFrames, sawHuge >>
    /\ StreamFrameOthers

\* Lines 196-199 and 246-249: http.ReadRequest / ReadResponse returns an
\* error (the mirror ended, or what follows is no message): the task returns
\* and its locals are gone.
StreamReturn ==
  /\ stPc = "head"
  /\ stPc' = "returned"
  /\ head' = NoHead
  /\ frameIndex' = 0
  /\ wireNo' = 0
  /\ stRecs' = << >>
  /\ stLast' = NoLast
  /\ readErr' = "none"
  /\ prevFrames' = 0
  /\ UNCHANGED << bodyNo, sawHuge, lateRec >>
  /\ StreamFrameOthers

StreamNext ==
  \/ StreamBegin
  \/ StreamLogFrame
  \/ StreamEOF
  \/ StreamFrameError
  \/ StreamUnary
  \/ StreamReturn

\* The body of the message h is read frame by frame (parseGRPCStream).
Framed(isReq, h) ==
  \/ BodyPath(isReq, h) = "grpcStream"
  \/ BodyPath(isReq, h) = "grpc" /\ HasEnvelopeFraming(h.ct)

\* C22: when reading a frame of a gRPC/Connect body fails (declared length
\* over 16 MiB, or the body ends inside a frame header or payload), a grpc
\* record with an error is emitted for that frame, at every log level.
C22_FrameReadFailureGivesGRPCErrorRecord ==
  (bodyNo > 0 /\ Framed(stIsRequest, head)
     /\ readErr \in {"unexpected EOF", "frame too large", "EOF after header"}) =>
    /\ Len(stRecs) > 0
    /\ stRecs[Len(stRecs)].type = "grpc"
    /\ stRecs[Len(stRecs)].nth = wireNo + 1
    /\ stLast.rec.error # ""

\* C23: after a frame with length field 0xFFFFFFFF is met, the parser of that
\* direction emits no request, response, body or grpc record for any later
\* message of the connection.
C23_NoRecordAfterHugeFrame == sawHuge => ~lateRec

\* C24: a POST request with content-type application/grpc and an empty body
\* produces exactly one grpc record, with grpc_data "{}" and no error.
C24_EmptyGRPCBodyGivesOneEmptyRecord ==
  (stIsRequest /\ bodyNo > 0 /\ head.post /\ head.ct = << "application/grpc" >>
     /\ wireNo = 0 /\ readErr = "EOF") =>
    /\ Len(GRPCRecs(stRecs)) = 1
    /\ stLast.rec.grpc_data = "{}"
    /\ stLast.rec.error = ""

\* C25: for a unary gRPC call with content-type application/grpc carrying one
\* frame, in either direction, the grpc record has streaming=false and
\* frame_index=0.
C25_UnaryCallRecordNotStreaming ==
  (bodyNo > 0 /\ head.ct = << "application/grpc" >>
     /\ BodyPath(stIsRequest, head) = "grpc" /\ wireNo = 1 /\ readErr = "EOF") =>
    /\ Len(GRPCRecs(stRecs)) = 1
    /\ \A i \in DOMAIN GRPCRecs(stRecs) :
         ~GRPCRecs(stRecs)[i].streaming /\ GRPCRecs(stRecs)[i].frame_index = 0

\* C26: within one envelope-framed body there is one grpc record per frame
\* read, in wire order, each with streaming=true, their frame_index 0, 1, 2,
\* ... without gaps or repeats; the index starts at 0 again in the next body.
C26_FramesLoggedInWireOrder ==
  (bodyNo > 0 /\ Framed(stIsRequest, head)) =>
    LET g == GRPCRecs(stRecs)
    IN /\ Len(g) = wireNo
       /\ \A i \in DOMAIN g : g[i].streaming /\ g[i].frame_index = i - 1 /\ g[i].nth = i
       /\ Len(g) > 0 => (stLast.streaming /\ stLast.frame_index = Len(g) - 1)

\* The second body of a connection has all its frames logged, after a first
\* body of two frames or more.
C26_Witness ==
  /\ bodyNo = 2
  /\ Framed(stIsRequest, head)
  /\ prevFrames >= 2
  /\ Len(GRPCRecs(stRecs)) = MaxFrames
  /\ GRPCRecs(stRecs)[1].frame_index = 0
  /\ stLast.frame_index = MaxFrames - 1

\* C27: when no message type is found for the frame's direction, the record
\* of the frame is the last one emitted, its error is exactly "unknown
\* message type for <service>/<method>" and its grpc_raw is the base64 of the
\* frame payload.
C27_UnknownTypeRecord ==
  stLast.outcome = "unknownType" =>
    /\ stRecs[Len(stRecs)].type = "grpc"
    /\ stLast.rec.error = "unknown message type for " \o Service \o "/" \o Method
    /\ stLast.rec.grpc_raw = Base64(stLast.payload)

\* ======================================================= ParseContentType

\* The header values: a media type followed by up to MaxTail further segments.
MaxTail == 2
MediaTypes ==
  { "application/grpc", "Application/GRPC", "application/proto",
    "application/connect+proto", "application/connect+json",
    "Application/Connect+JSON", "application/json", "text/event-stream",
    "text/plain" }
TailSegs == { "+proto", "+json", ";", "charset=utf-8", "buf" }
RECURSIVE TailsUpTo(_)
TailsUpTo(n) ==
  IF n = 0 THEN { << >> }
  ELSE LET shorter == TailsUpTo(n - 1)
       IN shorter \cup { Append(t, seg) : t \in { u \in shorter : Len(u) = n - 1 },
                                          seg \in TailSegs }
AllContentTypes == { << m >> \o t : m \in MediaTypes, t \in TailsUpTo(MaxTail) }

\* One call of ParseContentType.
Classify ==
  /\ ctInfo = << >>
  /\ ctInfo' = << ParseContentType(ctIn) >>
  /\ UNCHANGED ctIn
  /\ CTFrame

CTNext == Classify

\* What the parser does with a body of a classified content type:
\* HasEnvelopeFraming, then parseGRPCBody's unframed path for the other gRPC
\* types, then the IsConnectJSON flag.
DecodingOf(info) ==
  IF info.IsGRPC \/ info.IsConnectStreamProto THEN "framed"
  ELSE IF info.IsConnectProto THEN "unframed"
  ELSE IF info.IsConnectJSON THEN "connect json"
  ELSE "not gRPC"

\* The table of content types, read on the lower-cased value.
TableDecoding(contentType) ==
  LET ct == ToLower(contentType)
  IN IF HasPrefix(ct, << "application/grpc" >>) THEN "framed"
     ELSE IF HasPrefix(ct, << "application/connect+proto" >>) THEN "framed"
     ELSE IF ct = << "application/proto" >> \/ HasPrefix(ct, << "application/proto", ";" >>)
       THEN "unframed"
     ELSE IF HasPrefix(ct, << "application/connect+json" >>) THEN "connect json"
     ELSE "not gRPC"

\* C31: every content-type value is classified as the table says: framed for
\* application/grpc[+...] and application/connect+proto[...], one unframed
\* message for application/proto and application/proto;..., Connect JSON for
\* application/connect+json[...], and not gRPC for every other value.
C31_ClassificationFollowsTable ==
  ctInfo # << >> => DecodingOf(ctInfo[1]) = TableDecoding(ctIn)

\* ============================================== ReadFrame, byte by byte

\* The bodies: a flags byte, a length field declaring up to MaxDeclared
\* bytes, and up to one byte more than that behind it.
MaxDeclared == 2
FrameBodies ==
  { << flags >> \o LengthField(n) \o Bytes(0, k) :
      flags \in 0..255, n \in 0..MaxDeclared, k \in 0..(MaxDeclared + 1) }

\* io.ReadFull(r, buf) for a buffer of n bytes on the bytes b of the reader.
ReadFull(b, n) ==
  IF Len(b) >= n THEN [err |-> "nil", got |-> n]
  ELSE IF Len(b) = 0 THEN [err |-> "EOF", got |-> 0]
  ELSE [err |-> "unexpected EOF", got |-> Len(b)]

\* ReadFrame, lines 546-569: the header, the flag, the length, the payload.
ReadFrameBytes ==
  /\ frOut = << >>
  /\ LET hdr == ReadFull(frBody, 5)
     IN IF hdr.err # "nil"
          THEN frOut' = << [err |-> hdr.err, compressed |-> FALSE, length |-> 0,
                            rawData |-> << >>, taken |-> hdr.got] >>
          ELSE LET header == SubSeq(frBody, 1, 5)
                   compressed == header[1] = 1
                   field == SubSeq(header, 2, 5)
               IN IF FrameTooLarge(field)
                    THEN frOut' = << [err |-> "frame too large", compressed |-> FALSE,
                                      length |-> 0, rawData |-> << >>, taken |-> 5] >>
                    ELSE LET length == Uint32(field)
                             rest == SubSeq(frBody, 6, Len(frBody))
                             pay == ReadFull(rest, length)
                         IN frOut' = << [err |-> pay.err,
                                         compressed |-> pay.err = "nil" /\ compressed,
                                         length |-> length,
                                         rawData |-> IF pay.err = "nil"
                                                       THEN SubSeq(rest, 1, length)
                                                       ELSE << >>,
                                         taken |-> 5 + pay.got] >>
  /\ UNCHANGED frBody
  /\ FrameFrame

FrameNext == ReadFrameBytes

\* C32: a frame ReadFrame returns is compressed exactly when bit 0 of the flags
\* byte is set, whatever the other bits are, its length is the big-endian
\* value of the four bytes after the flags, and the call takes exactly
\* 5 + length bytes from the body.
C32_FlagBitLengthAndBytesTaken ==
  (frOut # << >> /\ frOut[1].err = "nil") =>
    /\ frOut[1].compressed = (frBody[1] % 2 = 1)
    /\ frOut[1].length =
         frBody[2] * 16777216 + frBody[3] * 65536 + frBody[4] * 256 + frBody[5]
    /\ frOut[1].taken = 5 + frOut[1].length
    /\ frOut[1].rawData = SubSeq(frBody, 6, 5 + frOut[1].length)

\* ======================================================= MessageRegistry

\* Calls made on one registry.
MaxRegOps == 3

\* The methods of one service, "pkg.v1.Svc", that bodies are decoded for.
RegMethods == { "Run", "Get" }

\* The suffixes tryFromNamingConventions tries, in its order.
Patterns ==
  << [reqSuffix |-> "Request", respSuffix |-> "Response"],
     [reqSuffix |-> "Req", respSuffix |-> "Resp"],
     [reqSuffix |-> "", respSuffix |-> "Response"] >>
Suffixes == { "Request", "Response", "Req", "Resp", "" }

\* The descriptor pool the generated packages filled at start-up: whether
\* GlobalFiles holds the service with the method, whether GlobalTypes holds
\* the method's declared input and output types, and for which suffixes
\* GlobalTypes holds a message named pkg.v1.<Method><suffix>.
Pools ==
  [hasMethod : BOOLEAN, inputFound : BOOLEAN, outputFound : BOOLEAN,
   named : SUBSET Suffixes]
NoPool ==
  [hasMethod |-> FALSE, inputFound |-> FALSE, outputFound |-> FALSE, named |-> {}]

\* NewMessageRegistry: two empty maps ("nil" is what a lookup of a missing key gives).
RegStart ==
  /\ requests = [m \in RegMethods |-> "nil"]
  /\ responses = [m \in RegMethods |-> "nil"]
  /\ regOps = 0
  /\ regLast = [op |-> "none", method |-> "Run", ret |-> FALSE]

\* Register: each type that is not nil is stored.
Register ==
  \E m \in RegMethods, reqType \in { "nil", "override.Req" },
     respType \in { "nil", "override.Resp" } :
    /\ regOps < MaxRegOps
    /\ regOps' = regOps + 1
    /\ requests' = IF reqType # "nil" THEN [requests EXCEPT ![m] = reqType] ELSE requests
    /\ responses' = IF respType # "nil" THEN [responses EXCEPT ![m] = respType]
                    ELSE responses
    /\ regLast' = [op |-> "register", method |-> m, ret |-> TRUE]
    /\ RegFrame

\* tryFromNamingConventions: the first pattern one of whose names is found.
FirstPattern ==
  LET hits == { i \in 1..Len(Patterns) :
                  \/ Patterns[i].reqSuffix \in regPool.named
                  \/ Patterns[i].respSuffix \in regPool.named }
  IN IF hits = {} THEN 0 ELSE CHOOSE i \in hits : \A j \in hits : i <= j

\* TryParseFromGlobalRegistry as parseGRPCBody calls it for every body:
\* tryFromServiceDescriptor, then tryFromNamingConventions.  Neither looks at
\* what the maps hold.
TryParseFromGlobalRegistry ==
  \E m \in RegMethods :
    /\ regOps < MaxRegOps
    /\ regOps' = regOps + 1
    /\ IF regPool.hasMethod
         THEN /\ requests' = IF regPool.inputFound
                               THEN [requests EXCEPT ![m] = "descriptor." \o m \o ".Input"]
                               ELSE requests
              /\ responses' = IF regPool.outputFound
                                THEN [responses EXCEPT ![m] = "descriptor." \o m \o ".Output"]
                                ELSE responses
              /\ regLast' = [op |-> "ensure", method |-> m, ret |-> TRUE]
         ELSE IF FirstPattern = 0
           THEN /\ UNCHANGED << requests, responses >>
                /\ regLast' = [op |-> "ensure", method |-> m, ret |-> FALSE]
           ELSE LET pat == Patterns[FirstPattern]
                IN /\ requests' = IF pat.reqSuffix \in regPool.named
                                    THEN [requests EXCEPT ![m] = "pkg.v1." \o m \o pat.reqSuffix]
                                    ELSE requests
                   /\ responses' = IF pat.respSuffix \in regPool.named
                                     THEN [responses EXCEPT
                                             ![m] = "pkg.v1." \o m \o pat.respSuffix]
                                     ELSE responses
                   /\ regLast' = [op |-> "ensure", method |-> m, ret |-> TRUE]
    /\ RegFrame

RegNext == Register \/ TryParseFromGlobalRegistry

\* C33: an ensure for a method that already has an entry, installed by an
\* earlier ensure or by a register, leaves the request type and the response
\* type of the method as they were.
C33_EnsureLeavesInstalledEntry ==
  [][\A m \in RegMethods :
       ( /\ regLast'.op = "ensure" /\ regLast'.method = m /\ regOps' = regOps + 1
         /\ (requests[m] # "nil" \/ responses[m] # "nil") ) =>
         (requests'[m] = requests[m] /\ responses'[m] = responses[m])]_vars

\* ================================================ handleSOCKS5Connection

\* Authentication methods a greeting offers.
MaxMethods == 2

\* The address field for an address type: 4 bytes, a length byte with that
\* many bytes, 16 bytes; other types have no defined field.
AddressFields(atyp) ==
  CASE atyp = 1 -> { << 10, 0, 0, 1 >> }
    [] atyp = 3 -> { << 0 >>, << 2, 101, 120 >> }
    [] atyp = 4 -> { [i \in 1..16 |-> IF i = 16 THEN 1 ELSE 0] }
    [] OTHER -> { << >> }

\* What a client can send: a greeting, a request and a port, cut off anywhere.
SocksHeads ==
  { << ver, n >> \o [i \in 1..n |-> 0] \o << rver, cmd, 0, atyp >> :
      ver \in {4, 5}, n \in 0..MaxMethods, rver \in {4, 5}, cmd \in {1, 2, 3},
      atyp \in {1, 3, 4, 5} }
SocksMessages ==
  UNION { { h \o addr \o << 1, 187 >> : addr \in AddressFields(h[Len(h)]) } :
            h \in SocksHeads }
SocksStreams == UNION { { SubSeq(m, 1, n) : n \in 0..Len(m) } : m \in SocksMessages }

SocksStart ==
  /\ socksPos = 0
  /\ socksPc = "greeting"
  /\ socksOut = << >>
  /\ socksTarget = << >>

\* The bytes the handler has not read yet.
SocksRest == SubSeq(socksIn, socksPos + 1, Len(socksIn))

\* The reply with code rep: VER, REP, RSV, ATYP, BND.ADDR, BND.PORT.
SocksReply(rep) == << 5, rep, 0, 1, 0, 0, 0, 0, 0, 0 >>

\* Lines 386-394: the two bytes of the greeting; a version other than 5 ends
\* the connection without a reply.
SocksGreeting ==
  /\ socksPc = "greeting"
  /\ LET r == ReadFull(SocksRest, 2)
     IN /\ socksPos' = socksPos + r.got
        /\ socksPc' = IF r.err = "nil" /\ SocksRest[1] = 5 THEN "methods" ELSE "closed"
  /\ UNCHANGED << socksOut, socksTarget >>
  /\ SocksFrame

\* Lines 396-404: the methods, then the no-authentication reply.
SocksMethods ==
  /\ socksPc = "methods"
  /\ LET r == ReadFull(SocksRest, socksIn[2])
     IN /\ socksPos' = socksPos + r.got
        /\ IF r.err = "nil"
             THEN socksPc' = "request" /\ socksOut' = Append(socksOut, << 5, 0 >>)
             ELSE socksPc' = "closed" /\ UNCHANGED socksOut
  /\ UNCHANGED socksTarget
  /\ SocksFrame

\* Line 412: the request is a version-5 CONNECT.
IsConnect_AnyCommand(reqHeader) == reqHeader[1] = 5
IsConnect(reqHeader) == reqHeader[1] = 5 /\ reqHeader[2] = 1

\* Lines 406-416 and the default branch of the switch at 448-450: the request
\* header; anything but a version-5 CONNECT is answered 0x07, an address type
\* other than 1, 3 and 4 is answered 0x08.
SocksRequest ==
  /\ socksPc = "request"
  /\ LET r == ReadFull(SocksRest, 4)
         reqHeader == SubSeq(SocksRest, 1, 4)
     IN /\ socksPos' = socksPos + r.got
        /\ IF r.err # "nil"
             THEN socksPc' = "closed" /\ UNCHANGED socksOut
             ELSE IF ~IsConnect(reqHeader)
               THEN socksPc' = "closed" /\ socksOut' = Append(socksOut, SocksReply(7))
               ELSE IF reqHeader[4] \notin {1, 3, 4}
                 THEN socksPc' = "closed" /\ socksOut' = Append(socksOut, SocksReply(8))
                 ELSE socksPc' = "address" /\ UNCHANGED socksOut
  /\ UNCHANGED socksTarget
  /\ SocksFrame

\* Lines 422-476: the address of the type the header named, the port, the
\* success reply, and the call of InterceptAuto with host and port.
SocksAddress ==
  /\ socksPc = "address"
  /\ LET atyp == socksIn[socksPos]
         lenByte == IF atyp = 3 THEN ReadFull(SocksRest, 1) ELSE [err |-> "nil", got |-> 0]
         size == IF atyp = 1 THEN 4
                 ELSE IF atyp = 4 THEN 16
                 ELSE IF lenByte.err = "nil" THEN SocksRest[1] ELSE 0
         afterLen == SubSeq(SocksRest, lenByte.got + 1, Len(SocksRest))
         addr == ReadFull(afterLen, size)
         afterAddr == SubSeq(afterLen, addr.got + 1, Len(afterLen))
         portBytes == ReadFull(afterAddr, 2)
     IN IF lenByte.err # "nil"
          THEN /\ socksPos' = socksPos + lenByte.got
               /\ socksPc' = "closed"
               /\ UNCHANGED << socksOut, socksTarget >>
          ELSE IF addr.err # "nil"
            THEN /\ socksPos' = socksPos + lenByte.got + addr.got
                 /\ socksPc' = "closed"
                 /\ UNCHANGED << socksOut, socksTarget >>
            ELSE IF portBytes.err # "nil"
              THEN /\ socksPos' = socksPos + lenByte.got + addr.got + portBytes.got
                   /\ socksPc' = "closed"
                   /\ UNCHANGED << socksOut, socksTarget >>
              ELSE /\ socksPos' = socksPos + lenByte.got + size + 2
                   /\ socksPc' = "intercept"
                   /\ socksOut' = Append(socksOut, SocksReply(0))
                   /\ socksTarget' = << [atyp |-> atyp,
                                         host |-> SubSeq(afterLen, 1, size),
                                         port |-> afterAddr[1] * 256 + afterAddr[2]] >>
  /\ SocksFrame

SocksNext == SocksGreeting \/ SocksMethods \/ SocksRequest \/ SocksAddress

\* The request header of the stream, when the stream holds a version-5
\* greeting, its methods and four bytes more.
HasRequest ==
  /\ Len(socksIn) >= 2 /\ socksIn[1] = 5
  /\ Len(socksIn) >= 2 + socksIn[2] + 4
RequestHeader == SubSeq(socksIn, 2 + socksIn[2] + 1, 2 + socksIn[2] + 4)

\* C35: the success reply is written and the connection handed to
\* InterceptAuto only after a version-5 greeting and a CONNECT request of
\* address type 1, 3 or 4; once the handler is through with a request of
\* another command the last reply is 0x07, with a CONNECT of another address
\* type it is 0x08, and in both cases InterceptAuto was not called.
C35_SuccessOnlyForConnect ==
  /\ (socksTarget # << >> \/ \E i \in 1..Len(socksOut) : socksOut[i] = SocksReply(0)) =>
       /\ HasRequest
       /\ RequestHeader[1] = 5 /\ RequestHeader[2] = 1 /\ RequestHeader[4] \in {1, 3, 4}
       /\ socksPc = "intercept"
       /\ socksOut = << << 5, 0 >>, SocksReply(0) >>
       /\ socksTarget # << >>
  /\ (socksPc = "closed" /\ HasRequest /\ RequestHeader[2] # 1) =>
       /\ socksOut = << << 5, 0 >>, SocksReply(7) >>
       /\ socksTarget = << >>
  /\ ( /\ socksPc = "closed" /\ HasRequest
       /\ RequestHeader[1] = 5 /\ RequestHeader[2] = 1
       /\ RequestHeader[4] \notin {1, 3, 4} ) =>
       /\ socksOut = << << 5, 0 >>, SocksReply(8) >>
       /\ socksTarget = << >>

\* A CONNECT to a domain name was handed over, port 443.
C35_Witness ==
  /\ socksPc = "intercept"
  /\ socksTarget # << >>
  /\ socksTarget[1].atyp = 3 /\ socksTarget[1].host = << 101, 120 >>
  /\ socksTarget[1].port = 443

\* A BIND request was refused.
C35_WitnessRefused ==
  /\ socksPc = "closed" /\ HasRequest /\ RequestHeader[2] = 2
  /\ socksOut = << << 5, 0 >>, SocksReply(7) >>

\* ======================================= Dialer through an upstream proxy

\* Bytes the target sends behind the proxy's handshake reply: 201, 202, ...
MaxTargetBytes == 2

\* What an upstream proxy answers.  HTTP: a status line (200 and 502 stand
\* for the text of the line before its CR LF), at most one header line, the
\* blank line.  SOCKS5: the method reply, then VER REP RSV ATYP, the bound
\* address and the port.
ProxyReplies(via) ==
  IF via = "http"
    THEN { << code, 13, 10 >> \o hdr \o << 13, 10 >> :
             code \in {200, 502}, hdr \in { << >>, << 72, 13, 10 >> } }
    ELSE { << 5, 0 >> \o << 5, rep, 0 >> \o bound \o << 1, 187 >> :
             rep \in {0, 1}, bound \in { << 1, 10, 0, 0, 1 >>, << 3, 2, 101, 120 >> } }

DialStart ==
  /\ dialBuf = << >>
  /\ dialHdr = << >>
  /\ dialRemaining = 0
  /\ wrapped = FALSE
  /\ delivered = << >>

\* conn.Read(p) with len(p) = n on a zeroed p: the array after k bytes came.
ReadInto(n, k) == [i \in 1..n |-> IF i <= k THEN upWire[i] ELSE 0]

\* The lines reader.ReadString('\n') returns from the buffered bytes b, read
\* at stage "status" or "headers": Sscanf of the status line and the test for
\* 200, then the header lines up to the blank one.  The result is what is
\* left in the buffer and where the dial stands.
RECURSIVE ReadLines(_, _)
ReadLines(b, stage) ==
  LET ends == { i \in 1..Len(b) : b[i] = 10 }
  IN IF ends = {} THEN [buf |-> b, pc |-> stage]
     ELSE LET i == CHOOSE e \in ends : \A f \in ends : e <= f
              line == SubSeq(b, 1, i)
              rest == SubSeq(b, i + 1, Len(b))
          IN IF stage = "status"
               THEN IF line[1] = 200 THEN ReadLines(rest, "headers")
                    ELSE [buf |-> rest, pc |-> "failed"]
               ELSE IF line \in { << 13, 10 >>, << 10 >> }
                 THEN [buf |-> rest, pc |-> "connected"]
                 ELSE ReadLines(rest, "headers")

\* dialHTTPProxy, lines 76-107: one conn.Read under reader.ReadString, then
\* every line the buffer now holds; after the blank line the connection is
\* returned, inside a bufferedConn if the reader still holds bytes.
HTTPProxyResponse ==
  \E k \in Arrivals(upWire, Len(upWire)) :
    /\ dialPc \in { "status", "headers" }
    /\ upWire' = Drop(upWire, k)
    /\ IF k = 0
         THEN dialPc' = "failed" /\ UNCHANGED << dialBuf, wrapped >>
         ELSE LET r == ReadLines(dialBuf \o Take(upWire, k), dialPc)
              IN /\ dialPc' = r.pc
                 /\ dialBuf' = r.buf
                 /\ wrapped' = (r.pc = "connected" /\ r.buf # << >>)
    /\ UNCHANGED << dialHdr, dialRemaining, delivered >>
    /\ DialFrame

\* dialSOCKS5Proxy, lines 134-154, with no credentials configured: one
\* conn.Read into the 2-byte response, then the tests of its two bytes.
Socks5MethodResponse ==
  \E k \in Arrivals(upWire, 2) :
    /\ dialPc = "method"
    /\ upWire' = Drop(upWire, k)
    /\ dialHdr' = ReadInto(2, k)
    /\ dialPc' = IF k = 0 \/ dialHdr'[1] # 5 \/ dialHdr'[2] \in {255, 2}
                   THEN "failed" ELSE "connectResponse"
    /\ UNCHANGED << dialBuf, dialRemaining, wrapped, delivered >>
    /\ DialFrame

\* Lines 218-247: one conn.Read into the 4-byte respHeader, the tests of the
\* version and of the reply code, and the switch on the address type.
Socks5ConnectResponse ==
  \E k \in Arrivals(upWire, 4) :
    /\ dialPc = "connectResponse"
    /\ upWire' = Drop(upWire, k)
    /\ dialHdr' = ReadInto(4, k)
    /\ IF k = 0 \/ dialHdr'[1] # 5 \/ dialHdr'[2] # 0
         THEN dialPc' = "failed" /\ UNCHANGED dialRemaining
         ELSE IF dialHdr'[4] = 3
           THEN dialPc' = "lenByte" /\ UNCHANGED dialRemaining
           ELSE /\ dialPc' = "remaining"
                /\ dialRemaining' = (CASE dialHdr'[4] = 1 -> 4
                                       [] dialHdr'[4] = 4 -> 16
                                       [] OTHER -> 0) + 2
    /\ UNCHANGED << dialBuf, wrapped, delivered >>
    /\ DialFrame

\* Lines 239-244: one conn.Read into lenByte.
Socks5LenByte ==
  \E k \in Arrivals(upWire, 1) :
    /\ dialPc = "lenByte"
    /\ upWire' = Drop(upWire, k)
    /\ dialHdr' = ReadInto(1, k)
    /\ IF k = 0
         THEN dialPc' = "failed" /\ UNCHANGED dialRemaining
         ELSE dialPc' = "remaining" /\ dialRemaining' = dialHdr'[1] + 2
    /\ UNCHANGED << dialBuf, wrapped, delivered >>
    /\ DialFrame

\* Lines 249-255: one conn.Read into remaining, then conn is returned.
Socks5Remaining ==
  \E k \in Arrivals(upWire, dialRemaining) :
    /\ dialPc = "remaining"
    /\ upWire' = Drop(upWire, k)
    /\ dialHdr' = ReadInto(dialRemaining, k)
    /\ dialPc' = IF k = 0 THEN "failed" ELSE "connected"
    /\ UNCHANGED << dialBuf, dialRemaining, wrapped, delivered >>
    /\ DialFrame

\* A Read with len(p) = n on the connection Dial returned: bufferedConn.Read
\* goes through the reader, the plain connection to conn.Read.
DialedRead(n) ==
  /\ dialPc = "connected"
  /\ IF wrapped
       THEN \E k \in Chunks(dialBuf, upWire, n) :
              LET r == BufferedConnRead(dialBuf, upWire, n, k)
              IN /\ delivered' = delivered \o r.data
                 /\ dialBuf' = r.buf
                 /\ upWire' = r.src
                 /\ dialPc' = IF r.eof THEN "eof" ELSE "connected"
       ELSE \E k \in Arrivals(upWire, n) :
              /\ delivered' = delivered \o Take(upWire, k)
              /\ upWire' = Drop(upWire, k)
              /\ dialPc' = IF k = 0 THEN "eof" ELSE "connected"
              /\ UNCHANGED dialBuf
  /\ UNCHANGED << dialHdr, dialRemaining, wrapped >>
  /\ DialFrame

DialNext ==
  \/ HTTPProxyResponse
  \/ Socks5MethodResponse
  \/ Socks5ConnectResponse
  \/ Socks5LenByte
  \/ Socks5Remaining
  \/ \E n \in 1..MaxRead : DialedRead(n)

\* C36: from the moment Dial has returned a connection, the bytes read from
\* it followed by those still buffered or not yet read are the bytes the
\* target sent behind the proxy's reply, in order and each once; at EOF all
\* of them were delivered.
C36_DialedConnDeliversTargetBytes ==
  /\ dialPc \in { "connected", "eof" } =>
       delivered \o dialBuf \o upWire = Bytes(200, dialTarget)
  /\ dialPc = "eof" => delivered = Bytes(200, dialTarget)

\* ================================================== Server.Start / Stop

Proxies == {"http", "socks5"}

\* NewServer: not running, stopChan made, no listener.
ServerStart ==
  /\ running = FALSE
  /\ stopChan = "open"
  /\ startPc = "idle"
  /\ stopPc = "idle"
  /\ lsnPc = [p \in Proxies |-> "idle"]
  /\ lsnSocket = [p \in Proxies |-> "none"]
  /\ lsnField = [p \in Proxies |-> FALSE]
  /\ startErrs = 0
  /\ acceptedConns = 0

\* Start, lines 129-177: set running under s.mu and start the goroutines of
\* startHTTPProxy and startSOCKS5Proxy; then wait in the select of line 180.
StartBegin ==
  /\ startPc = "idle"
  /\ ~running
  /\ running' = TRUE
  /\ lsnPc' = [p \in Proxies |-> "listen"]
  /\ startPc' = "select"
  /\ UNCHANGED << stopChan, stopPc, lsnSocket, lsnField, startErrs, acceptedConns >>
  /\ ServerFrame

\* startHTTPProxy / startSOCKS5Proxy, net.Listen: on an error the goroutine
\* sends it on errChan and ends.
Listen(p) ==
  \E ok \in BOOLEAN :
    /\ lsnPc[p] = "listen"
    /\ IF ok
         THEN /\ lsnSocket' = [lsnSocket EXCEPT ![p] = "open"]
              /\ lsnPc' = [lsnPc EXCEPT ![p] = "assign"]
              /\ UNCHANGED startErrs
         ELSE /\ lsnPc' = [lsnPc EXCEPT ![p] = "returned"]
              /\ startErrs' = startErrs + 1
              /\ UNCHANGED lsnSocket
    /\ UNCHANGED << running, stopChan, startPc, stopPc, lsnField, acceptedConns >>
    /\ ServerFrame

\* s.httpListener = listener (line 228), s.socks5Listener = listener (357).
AssignListener(p) ==
  /\ lsnPc[p] = "assign"
  /\ lsnField' = [lsnField EXCEPT ![p] = TRUE]
  /\ lsnPc' = [lsnPc EXCEPT ![p] = "accept"]
  /\ UNCHANGED << running, stopChan, startPc, stopPc, lsnSocket, startErrs, acceptedConns >>
  /\ ServerFrame

\* listener.Accept() returns a connection, which gets its own goroutine.
AcceptConn(p) ==
  /\ lsnPc[p] = "accept"
  /\ lsnSocket[p] = "open"
  /\ acceptedConns < MaxAccepts
  /\ acceptedConns' = acceptedConns + 1
  /\ UNCHANGED << running, stopChan, startPc, stopPc, lsnPc, lsnSocket, lsnField, startErrs >>
  /\ ServerFrame

\* listener.Accept() returns an error, as it does on a closed listener and
\* may on an open one: with stopChan closed the loop returns nil (lines
\* 234-236), otherwise it goes on to the next Accept.
AcceptError(p) ==
  \E transient \in BOOLEAN :
    /\ lsnPc[p] = "accept"
    /\ lsnSocket[p] = "closed" \/ transient
    /\ stopChan = "closed"
    /\ lsnPc' = [lsnPc EXCEPT ![p] = "returned"]
    /\ UNCHANGED << running, stopChan, startPc, stopPc, lsnSocket, lsnField, startErrs,
                    acceptedConns >>
    /\ ServerFrame

\* Start's select (lines 180-185): stopChan is closed, or an error came.
StartSelect ==
  \E branch \in {"stop", "err"} :
    /\ startPc = "select"
    /\ IF branch = "stop" THEN stopChan = "closed" ELSE startErrs > 0
    /\ startPc' = IF branch = "stop" THEN "wait" ELSE "failed"
    /\ startErrs' = IF branch = "err" THEN startErrs - 1 ELSE startErrs
    /\ UNCHANGED << running, stopChan, stopPc, lsnPc, lsnSocket, lsnField, acceptedConns >>
    /\ ServerFrame

\* wg.Wait() (line 187) returns when the goroutines have ended.
StartReturns ==
  /\ startPc = "wait"
  /\ \A p \in Proxies : lsnPc[p] = "returned"
  /\ startPc' = "returned"
  /\ UNCHANGED << running, stopChan, stopPc, lsnPc, lsnSocket, lsnField, startErrs,
                  acceptedConns >>
  /\ ServerFrame

\* Stop, lines 193-199: under s.mu, return if not running, else clear it.
StopBegin ==
  /\ stopPc = "idle"
  /\ running
  /\ running' = FALSE
  /\ stopPc' = "closeChan"
  /\ UNCHANGED << stopChan, startPc, lsnPc, lsnSocket, lsnField, startErrs, acceptedConns >>
  /\ ServerFrame

\* close(s.stopChan), line 201.
StopCloseChan ==
  /\ stopPc = "closeChan"
  /\ stopChan' = "closed"
  /\ stopPc' = "http"
  /\ UNCHANGED << running, startPc, lsnPc, lsnSocket, lsnField, startErrs, acceptedConns >>
  /\ ServerFrame

\* Lines 203-208: if the field is not nil, close the listener.  The field is
\* written by the listener's goroutine and read here with nothing ordering
\* the two, so the read may miss a write that was made.
StopCloseListener(p) ==
  \E seen \in BOOLEAN :
    /\ stopPc = p
    /\ seen => lsnField[p]
    /\ lsnSocket' = [lsnSocket EXCEPT ![p] = IF seen /\ @ = "open" THEN "closed" ELSE @]
    /\ stopPc' = IF p = "http" THEN "socks5" ELSE "rest"
    /\ UNCHANGED << running, stopChan, startPc, lsnPc, lsnField, startErrs, acceptedConns >>
    /\ ServerFrame

\* Lines 209-218: the API server, the key log and the address file; Stop returns.
StopReturns ==
  /\ stopPc = "rest"
  /\ stopPc' = "done"
  /\ UNCHANGED << running, stopChan, startPc, lsnPc, lsnSocket, lsnField, startErrs,
                  acceptedConns >>
  /\ ServerFrame

ServerNext ==
  \/ StartBegin
  \/ \E p \in Proxies : Listen(p)
  \/ \E p \in Proxies : AssignListener(p)
  \/ \E p \in Proxies : AcceptConn(p)
  \/ \E p \in Proxies : AcceptError(p)
  \/ StartSelect
  \/ StartReturns
  \/ StopBegin
  \/ StopCloseChan
  \/ \E p \in Proxies : StopCloseListener(p)
  \/ StopReturns

\* C28: once Stop, called while Start is running, has returned, no proxy
\* listener is open (so that no accept loop can wait in Accept for good),
\* however Stop interleaves with the goroutines Start launched.
C28_StopClosesListeners ==
  stopPc = "done" => \A p \in Proxies : lsnSocket[p] # "open"

\* ====================================================================== Hub

Clients == 1..NClients

HubStart ==
  /\ broadcast = << >>
  /\ clients = {}
  /\ send = [c \in Clients |-> << >>]
  /\ sendClosed = [c \in Clients |-> FALSE]
  /\ received = [c \in Clients |-> << >>]
  /\ nextMsg = 1
  /\ droppedIntake = {}
  /\ taken = << >>
  /\ regTaken = [c \in Clients |-> -1]
  /\ regEarly = [c \in Clients |-> FALSE]
  /\ unregTaken = [c \in Clients |-> -1]
  /\ droppedFor = [c \in Clients |-> {}]

\* A Broadcast whose send on h.broadcast has no default case.
Broadcast_Blocking ==
  /\ nextMsg <= MaxMsgs
  /\ Len(broadcast) < HubCap
  /\ broadcast' = Append(broadcast, nextMsg)
  /\ nextMsg' = nextMsg + 1
  /\ UNCHANGED << clients, send, sendClosed, received, droppedIntake, taken,
                  regTaken, regEarly, unregTaken, droppedFor >>
  /\ HubFrame

\* Hub.Broadcast: marshal, then select { case h.broadcast <- data: default: }.
\* (json.Marshal of a Record cannot fail.)
Broadcast ==
  /\ nextMsg <= MaxMsgs
  /\ IF Len(broadcast) < HubCap
       THEN /\ broadcast' = Append(broadcast, nextMsg)
            /\ droppedIntake' = droppedIntake
       ELSE /\ broadcast' = broadcast
            /\ droppedIntake' = droppedIntake \cup {nextMsg}
  /\ nextMsg' = nextMsg + 1
  /\ UNCHANGED << clients, send, sendClosed, received, taken, regTaken,
                  regEarly, unregTaken, droppedFor >>
  /\ HubFrame

\* Hub.Run, case client := <-h.register, meeting HandleWebSocket's
\* h.hub.Register(NewClient(...)).  Clients are numbered in the order in
\* which they register.
RunRegister(c) ==
  /\ regTaken[c] = -1
  /\ \A b \in Clients : b < c => regTaken[b] # -1
  /\ clients' = clients \cup {c}
  /\ regTaken' = [regTaken EXCEPT ![c] = Len(taken)]
  /\ regEarly' = [regEarly EXCEPT ![c] = (nextMsg = 1)]
  /\ UNCHANGED << broadcast, send, sendClosed, received, nextMsg,
                  droppedIntake, taken, unregTaken, droppedFor >>
  /\ HubFrame

\* Hub.Run, case client := <-h.unregister, meeting the Unregister that
\* ReadPump defers: delete the client and close its send channel.
RunUnregister(c) ==
  /\ regTaken[c] # -1
  /\ unregTaken[c] = -1
  /\ unregTaken' = [unregTaken EXCEPT ![c] = Len(taken)]
  /\ IF c \in clients
       THEN /\ clients' = clients \ {c}
            /\ sendClosed' = [sendClosed EXCEPT ![c] = TRUE]
       ELSE UNCHANGED << clients, sendClosed >>
  /\ UNCHANGED << broadcast, send, received, nextMsg, droppedIntake, taken,
                  regTaken, regEarly, droppedFor >>
  /\ HubFrame

\* The clients whose send channel has room.
Ready == {c \in clients : Len(send[c]) < ClientCap}

\* A delivery whose send on client.send has no default case.
RunBroadcast_Blocking ==
  /\ broadcast # << >>
  /\ Ready = clients
  /\ broadcast' = Tail(broadcast)
  /\ taken' = Append(taken, Head(broadcast))
  /\ send' = [c \in Clients |->
                IF c \in clients THEN Append(send[c], Head(broadcast)) ELSE send[c]]
  /\ UNCHANGED << clients, sendClosed, received, nextMsg, droppedIntake,
                  regTaken, regEarly, unregTaken, droppedFor >>
  /\ HubFrame

\* A delivery that gives up on every client once one client is full.
RunBroadcast_StopAtFull ==
  /\ broadcast # << >>
  /\ broadcast' = Tail(broadcast)
  /\ taken' = Append(taken, Head(broadcast))
  /\ send' = [c \in Clients |->
                IF c \in clients /\ Ready = clients
                  THEN Append(send[c], Head(broadcast)) ELSE send[c]]
  /\ droppedFor' = [c \in Clients |->
                      IF c \in clients \ Ready
                        THEN droppedFor[c] \cup {Head(broadcast)} ELSE droppedFor[c]]
  /\ UNCHANGED << clients, sendClosed, received, nextMsg, droppedIntake,
                  regTaken, regEarly, unregTaken >>
  /\ HubFrame

\* Hub.Run, case message := <-h.broadcast: under the read lock, offer the
\* message to every client with select { case client.send <- message: default: }.
RunBroadcast ==
  /\ broadcast # << >>
  /\ broadcast' = Tail(broadcast)
  /\ taken' = Append(taken, Head(broadcast))
  /\ send' = [c \in Clients |->
                IF c \in Ready THEN Append(send[c], Head(broadcast)) ELSE send[c]]
  /\ droppedFor' = [c \in Clients |->
                      IF c \in clients \ Ready
                        THEN droppedFor[c] \cup {Head(broadcast)} ELSE droppedFor[c]]
  /\ UNCHANGED << clients, sendClosed, received, nextMsg, droppedIntake,
                  regTaken, regEarly, unregTaken >>
  /\ HubFrame

\* Client.WritePump, one turn of for message := range c.send: the message is
\* written to the client's connection.  (A closed channel still yields the
\* messages it holds.)
WritePump(c) ==
  /\ regTaken[c] # -1
  /\ send[c] # << >>
  /\ send' = [send EXCEPT ![c] = Tail(send[c])]
  /\ received' = [received EXCEPT ![c] = Append(received[c], Head(send[c]))]
  /\ UNCHANGED << broadcast, clients, sendClosed, nextMsg, droppedIntake, taken,
                  regTaken, regEarly, unregTaken, droppedFor >>
  /\ HubFrame

HubNext ==
  \/ Broadcast
  \/ \E c \in Clients : RunRegister(c)
  \/ \E c \in Clients : RunUnregister(c)
  \/ RunBroadcast
  \/ \E c \in Clients : WritePump(c)

Range(q) == {q[i] : i \in DOMAIN q}

\* C8: Broadcast never waits: whatever the state of the hub loop and of the
\* clients it can run; it appends the record when the intake channel has room
\* and changes nothing in the channel when it is full; and the channel never
\* holds more than its capacity.
C8_BroadcastNeverBlocks ==
  /\ [](Len(broadcast) <= HubCap)
  /\ []((nextMsg <= MaxMsgs) => ENABLED Broadcast)
  /\ [][(nextMsg' # nextMsg) =>
          /\ nextMsg' = nextMsg + 1
          /\ IF Len(broadcast) < HubCap
               THEN broadcast' = Append(broadcast, nextMsg)
                    /\ droppedIntake' = droppedIntake
               ELSE broadcast' = broadcast
                    /\ droppedIntake' = droppedIntake \cup {nextMsg}]_vars

\* C8 witness: Broadcast met a full intake channel and dropped a record.
C8_Witness ==
  /\ droppedIntake # {}
  /\ Len(broadcast) = HubCap

\* C9: the hub loop never waits for a client: it can always take the next
\* message; a delivery appends the message to every registered client whose
\* channel has room and leaves every other channel as it was; and no client
\* channel ever holds more than its capacity.
C9_DeliveryNeverBlocks ==
  /\ [](\A c \in Clients : Len(send[c]) <= ClientCap)
  /\ []((broadcast # << >>) => ENABLED RunBroadcast)
  /\ [][(taken' # taken) =>
          \A c \in Clients :
            send'[c] = IF c \in clients /\ Len(send[c]) < ClientCap
                         THEN Append(send[c], Head(broadcast))
                         ELSE send[c]]_vars

\* C9 witness: one delivery skipped a full client and reached another.
C9_Witness ==
  \E c, d \in clients, m \in Range(taken) :
    /\ m \in droppedFor[c]
    /\ m \in Range(send[d]) \cup Range(received[d])

\* C10, as stated: a client registered before the first Broadcast, whose own
\* channel was never full, has, once it has emptied its channel and the hub
\* loop has emptied the intake, received every record passed to Broadcast.
C10_DrainingClientReceivesEveryBroadcast ==
  \A c \in clients :
    (regEarly[c] /\ droppedFor[c] = {} /\ send[c] = << >> /\ broadcast = << >>) =>
      received[c] = [i \in 1..(nextMsg - 1) |-> i]

\* The messages the hub loop offered to client c: those it took while c was
\* registered.
Offered(c) ==
  SubSeq(taken, regTaken[c] + 1, IF unregTaken[c] = -1 THEN Len(taken) ELSE unregTaken[c])

\* C10, amended: a client receives, in order, every record that the intake
\* channel accepted and the hub loop took while the client was registered,
\* but for those that met the client's own channel full; a record passed to
\* Broadcast while the intake channel is full reaches no client.  What the
\* other clients do changes nothing.
C10_ClientReceivesEveryAccepted ==
  /\ \A c \in Clients :
       (regTaken[c] # -1) =>
         LET Kept(m) == m \notin droppedFor[c]
         IN received[c] \o send[c] = SelectSeq(Offered(c), Kept)
  /\ \A c \in Clients : regEarly[c] => regTaken[c] = 0
  /\ LET acc == taken \o broadcast
     IN /\ Range(acc) = (1..(nextMsg - 1)) \ droppedIntake
        /\ \A i, j \in DOMAIN acc : (i < j) => (acc[i] < acc[j])

\* C10 witness: every record has been passed to Broadcast, one was dropped at
\* the intake; one client emptied its channel and has all the accepted
\* records, while another never read and lost one to its full channel.
C10_Witness ==
  \E c, d \in clients :
    /\ c # d
    /\ nextMsg > MaxMsgs /\ broadcast = << >> /\ droppedIntake # {}
    /\ regEarly[c] /\ droppedFor[c] = {} /\ send[c] = << >>
    /\ Len(received[c]) = MaxMsgs - Cardinality(droppedIntake)
    /\ received[d] = << >> /\ droppedFor[d] # {}

\* ================================== Hub.Run, any Register / Unregister calls

\* Unregister calls the hub loop receives in all, and the records passed to
\* Broadcast meanwhile.
MaxUnregister == 3
MaxOpsMsgs == 2

RECURSIVE SumOver(_, _)
SumOver(f, S) ==
  IF S = {} THEN 0
  ELSE LET c == CHOOSE x \in S : TRUE IN f[c] + SumOver(f, S \ {c})

HubOpsStart ==
  /\ unregCalls = [c \in Clients |-> 0]
  /\ closes = [c \in Clients |-> 0]

\* An unregister case that closes the channel of whatever client it receives.
InClients_Always(c) == TRUE

\* Line 52: _, ok := h.clients[client].
InClients(c) == c \in clients

\* Hub.Run, case client := <-h.unregister, meeting any call of Hub.Unregister:
\* the one ReadPump defers, a second one for the same client, or one for a
\* client that was never registered.
Unregister(c) ==
  /\ SumOver(unregCalls, Clients) < MaxUnregister
  /\ unregCalls' = [unregCalls EXCEPT ![c] = @ + 1]
  /\ IF InClients(c)
       THEN /\ clients' = clients \ {c}
            /\ sendClosed' = [sendClosed EXCEPT ![c] = TRUE]
            /\ closes' = [closes EXCEPT ![c] = @ + 1]
            /\ unregTaken' = [unregTaken EXCEPT ![c] = Len(taken)]
       ELSE UNCHANGED << clients, sendClosed, closes, unregTaken >>
  /\ UNCHANGED << broadcast, send, received, nextMsg, droppedIntake, taken,
                  regTaken, regEarly, droppedFor >>
  /\ HubOpsFrame

\* Hub.Broadcast, for the first MaxOpsMsgs records.
HubOpsBroadcast ==
  /\ nextMsg <= MaxOpsMsgs
  /\ Broadcast

HubOpsNext ==
  \/ HubOpsBroadcast
  \/ \E c \in Clients : RunRegister(c)
  \/ \E c \in Clients : Unregister(c)
  \/ RunBroadcast
  \/ \E c \in Clients : WritePump(c)

MaxCalls == 5

LifeStart ==
  /\ lifeCalls = << >>
  /\ startOut = "none"
  /\ waiting = 0
  /\ closing = 0
  /\ chanCloses = 0

\* A second close(s.stopChan) panics ("close of closed channel") and ends
\* the process.
Alive == chanCloses <= 1

\* Start, lines 129-135 and what follows up to the select of line 180: with
\* running set it returns the error; otherwise it sets running, starts the
\* goroutines and waits in the select.
CallStart ==
  /\ Alive
  /\ Len(lifeCalls) < MaxCalls
  /\ lifeCalls' = Append(lifeCalls, "Start")
  /\ IF running
       THEN /\ startOut' = "server already running"
            /\ UNCHANGED << running, waiting >>
       ELSE /\ running' = TRUE
            /\ startOut' = "started"
            /\ waiting' = waiting + 1
  /\ UNCHANGED << stopChan, closing, chanCloses >>
  /\ LifeFrame

\* Start's select, lines 180-188: the stop channel is closed, or one of the
\* goroutines sent an error; Start returns and leaves s.running as it is.
StartLeavesSelect ==
  \E branch \in { "stop", "err" } :
    /\ Alive
    /\ waiting > 0
    /\ branch = "stop" => stopChan = "closed"
    /\ waiting' = waiting - 1
    /\ UNCHANGED << running, stopChan, lifeCalls, startOut, closing, chanCloses >>
    /\ LifeFrame

\* Stop, lines 193-199: under s.mu, return if not running, else clear it.
CallStop ==
  /\ Alive
  /\ Len(lifeCalls) < MaxCalls
  /\ lifeCalls' = Append(lifeCalls, "Stop")
  /\ IF running
       THEN /\ running' = FALSE
            /\ closing' = closing + 1
       ELSE UNCHANGED << running, closing >>
  /\ UNCHANGED << stopChan, startOut, waiting, chanCloses >>
  /\ LifeFrame

\* Stop, line 201: close(s.stopChan); the channel is the one NewServer made.
CloseStopChan ==
  /\ Alive
  /\ closing > 0
  /\ closing' = closing - 1
  /\ chanCloses' = chanCloses + 1
  /\ stopChan' = "closed"
  /\ UNCHANGED << running, lifeCalls, startOut, waiting >>
  /\ LifeFrame

LifeNext ==
  \/ CallStart
  \/ StartLeavesSelect
  \/ CallStop
  \/ CloseStopChan

\* C39: over any sequence of Start and Stop calls on one Server the stop
\* channel is closed at most once; a Stop that finds the server not running
\* changes nothing; and a Start that finds it running returns "server
\* already running" and changes nothing.
C39_StartStopSequences ==
  /\ [](chanCloses <= 1)
  /\ [][(Len(lifeCalls') > Len(lifeCalls) /\ lifeCalls'[Len(lifeCalls')] = "Stop"
          /\ ~running)
          => UNCHANGED << running, stopChan, waiting, closing, chanCloses >>]_vars
  /\ [][(Len(lifeCalls') > Len(lifeCalls) /\ lifeCalls'[Len(lifeCalls')] = "Start"
          /\ running)
          => /\ startOut' = "server already running"
             /\ UNCHANGED << running, stopChan, waiting, closing, chanCloses >>]_vars

\* ========================================================= SSEParser.Next

\* Lines in one body.
MaxLines == 3

\* The lines a body is made of, in segments, without the final "\n": the
\* blank line, bare and with a carriage return, a comment, data, event and id
\* fields with and without the space after the colon, and a field written
\* without a colon.
SSELines ==
  { << >>, << "\r" >>, << ":", "c" >>,
    << "data", ":", " ", "a" >>, << "data", ":", "b", "\r" >>, << "data", " ", "a" >>,
    << "event", ":", " ", "x" >>, << "event", ":", "y" >>,
    << "id", ":", "1" >> }

RECURSIVE LinesUpTo(_)
LinesUpTo(n) ==
  IF n = 0 THEN { << >> }
  ELSE LET shorter == LinesUpTo(n - 1)
       IN shorter \cup { Append(ls, l) : ls \in shorter, l \in SSELines }

SSEStart ==
  /\ ssePos = 0
  /\ lastID = << >>
  /\ sseEvents = << >>
  /\ ssePc = "open"

\* bytes.TrimSuffix / strings.TrimSuffix for a one-byte suffix.
TrimSuffix(line, suffix) ==
  IF line # << >> /\ line[Len(line)] = suffix THEN SubSeq(line, 1, Len(line) - 1) ELSE line

\* bytes.IndexByte: the first position of the byte, 0 for none.
IndexByte(line, b) ==
  IF \E i \in DOMAIN line : line[i] = b
    THEN CHOOSE i \in DOMAIN line : line[i] = b /\ \A j \in 1..(i - 1) : line[j] # b
    ELSE 0

\* bytes.TrimSpace on the segments of a value.
RECURSIVE TrimSpace(_)
TrimSpace(v) ==
  IF v = << >> THEN v
  ELSE IF Head(v) \in { " ", "\r" } THEN TrimSpace(Tail(v))
  ELSE IF v[Len(v)] \in { " ", "\r" } THEN TrimSpace(SubSeq(v, 1, Len(v) - 1))
  ELSE v

\* parseSSEField: "field: value", "field:value" or "field value".
parseSSEField(line) ==
  LET idx == IndexByte(line, ":")
      sp == IndexByte(line, " ")
  IN IF idx = 0
       THEN IF sp # 0
              THEN [field |-> SubSeq(line, 1, sp - 1),
                    value |-> TrimSpace(SubSeq(line, sp + 1, Len(line)))]
              ELSE [field |-> line, value |-> << >>]
       ELSE LET value == SubSeq(line, idx + 1, Len(line))
            IN [field |-> SubSeq(line, 1, idx - 1),
                value |-> IF value # << >> /\ value[1] = " " THEN Tail(value) ELSE value]

\* What the lines since the last blank line held: how many data fields and
\* the value of the last event field.
NoBlock == [dataLines |-> 0, eventField |-> << >>]

\* The for loop of Next from line number pos + 1 on: the record it returns
\* holds the event returned (or none, with the error), the lines taken and
\* p.lastID.  At a blank line without data only rawLines is reset (line 72):
\* the loop goes on with the event built so far.
RECURSIVE NextLoop(_, _, _, _, _)
NextLoop(pos, event, hasData, id, block) ==
  IF pos >= Len(sseIn) \/ (pos = Len(sseIn) - 1 /\ sseOpenTail)
    THEN \* ReadBytes returns an error, with or without the bytes of a last line
         [ret |-> IF hasData THEN << [event |-> event, block |-> block] >> ELSE << >>,
          err |-> IF hasData THEN "nil" ELSE "EOF",
          pos |-> Len(sseIn), id |-> id]
    ELSE LET line == TrimSuffix(sseIn[pos + 1], "\r")
             f == parseSSEField(line)
         IN IF line = << >>
              THEN IF hasData
                     THEN [ret |-> << [event |->
                                         [event EXCEPT
                                            !.Data = TrimSuffix(event.Data, "\n"),
                                            !.ID = IF event.ID = << >> THEN id
                                                   ELSE event.ID],
                                       block |-> block] >>,
                           err |-> "nil", pos |-> pos + 1, id |-> id]
                     ELSE NextLoop(pos + 1, event, hasData, id, NoBlock)
            ELSE IF line[1] = ":"
              THEN NextLoop(pos + 1, event, hasData, id, block)
            ELSE IF f.field = << "data" >>
              THEN NextLoop(pos + 1,
                            [event EXCEPT !.Data = event.Data \o f.value \o << "\n" >>],
                            TRUE, id,
                            [block EXCEPT !.dataLines = block.dataLines + 1])
            ELSE IF f.field = << "event" >>
              THEN NextLoop(pos + 1, [event EXCEPT !.Event = f.value], hasData, id,
                            [block EXCEPT !.eventField = f.value])
            ELSE IF f.field = << "id" >>
              THEN NextLoop(pos + 1, [event EXCEPT !.ID = f.value], hasData, f.value,
                            block)
            ELSE NextLoop(pos + 1, event, hasData, id, block)

\* One call of SSEParser.Next by parseSSEEvents, which stops at the first
\* error.
SSEParserNext ==
  /\ ssePc = "open"
  /\ LET r == NextLoop(ssePos, [Data |-> << >>, Event |-> << >>, ID |-> << >>], FALSE,
                       lastID, NoBlock)
     IN /\ ssePos' = r.pos
        /\ lastID' = r.id
        /\ sseEvents' = sseEvents \o r.ret
        /\ ssePc' = IF r.err = "nil" THEN "open" ELSE "eof"
  /\ SSEFrame

SSEStep ==
  \/ SSEParserNext

\* C40: every event Next returns was built from a block with at least one
\* data field, and its event type is the value of the last event field of
\* that block (none if the block has none): what a block without data held
\* is not found in it.
C40_EventFromItsOwnBlock ==
  \A i \in DOMAIN sseEvents :
    /\ sseEvents[i].block.dataLines >= 1
    /\ sseEvents[i].event.Event = sseEvents[i].block.eventField

\* ========================================================== specifications

\* Inputs the other components' specifications hold fixed.
CorrIdle == CorrStart /\ reqs = [i \in Pairs |-> FALSE] /\ resps = [j \in Pairs |-> "other"]
PipeIdle == PipeStart /\ badAt = 0

\* One direction of the splice; the byte at which the mirrored stream stops
\* being valid HTTP is an input.
\* The components added to the first four, at rest.
CAIdle == CAStart /\ hostName = "dns"

MitmIdle == MitmStart /\ enableHTTPParsing = FALSE /\ hasRecorder = FALSE

AcceptIdle == AcceptStart /\ payload = 0 /\ isTLS = FALSE /\ totalLen = PeekLen

FwdIdle == FwdStart /\ tlsPath = TRUE

StreamIdle == StreamStart /\ logLevel = "basic" /\ stIsRequest = TRUE

CTIdle == ctIn = << "text/plain" >> /\ ctInfo = << >>

FrameIdle == frBody = << >> /\ frOut = << >>

RegIdle == RegStart /\ regPool = NoPool

SocksIdle == SocksStart /\ socksIn = << >>

DialIdle ==
  /\ DialStart /\ dialVia = "http" /\ dialTarget = 0 /\ upWire = << >>
  /\ dialPc = "status"

SSEIdle == SSEStart /\ sseIn = << >> /\ sseOpenTail = FALSE

LateIdle == HubOpsStart /\ LifeStart /\ SSEIdle

TailIdle == CTIdle /\ FrameIdle /\ RegIdle /\ SocksIdle /\ DialIdle /\ LateIdle

RestIdle ==
  MitmIdle /\ AcceptIdle /\ FwdIdle /\ GRPCStart /\ StreamIdle /\ ServerStart /\ TailIdle

MoreIdle == CacheStart /\ CAIdle /\ RestIdle

PipeInit == PipeStart /\ badAt \in 0..MaxBytes /\ RecStart /\ CorrIdle /\ HubStart /\ MoreIdle

SpecPipe == PipeInit /\ [][PipeNext]_vars

\* The recorder with its sessions' parser tasks.
RecInit == RecStart /\ PipeIdle /\ CorrIdle /\ HubStart /\ MoreIdle

SpecRec == RecInit /\ [][RecNext]_vars

\* One keep-alive connection; what the requests and responses are is an input.
CorrInit ==
  /\ CorrStart
  /\ reqs \in [Pairs -> BOOLEAN]
  /\ resps \in [Pairs -> {"grpc", "sse", "other", "malformed"}]
  /\ PipeIdle
  /\ RecStart
  /\ HubStart
  /\ MoreIdle

SpecCorr == CorrInit /\ [][CorrNext]_vars

\* The hub with its producers and clients.
HubInit == HubStart /\ PipeIdle /\ RecStart /\ CorrIdle /\ MoreIdle

SpecHub == HubInit /\ [][HubNext]_vars

\* The ring, its writers one after another under r.cacheMu, and its readers.
CacheInit == CacheStart /\ RecStart /\ PipeIdle /\ CorrIdle /\ HubStart /\ CAIdle /\ RestIdle

SpecCache == CacheInit /\ [][CacheNext]_vars

\* The certificate directory over the runs of the process, with the callers
\* of the CA.
CAInit ==
  CAStart /\ CacheStart /\ RecStart /\ PipeIdle /\ CorrIdle /\ HubStart /\ RestIdle

SpecCA == CAInit /\ [][CANext]_vars

\* One run of the process on an empty certificate directory, New done.
LeafInit ==
  CAUp /\ CacheStart /\ RecStart /\ PipeIdle /\ CorrIdle /\ HubStart /\ RestIdle

SpecLeaf == LeafInit /\ [][LeafNext]_vars

\* The connections of one interceptor; how it is configured is an input.
MitmInit ==
  /\ MitmStart
  /\ enableHTTPParsing \in BOOLEAN
  /\ hasRecorder \in BOOLEAN
  /\ RecStart /\ PipeIdle /\ CorrIdle /\ HubStart /\ CacheStart /\ CAIdle /\ AcceptIdle
  /\ FwdIdle /\ GRPCStart /\ StreamIdle /\ ServerStart /\ TailIdle

SpecMitm == MitmInit /\ [][MitmNext]_vars

\* One accepted connection; what the client sends and when it arrives is an input.
AcceptInit ==
  /\ AcceptStart
  /\ RecStart /\ PipeIdle /\ CorrIdle /\ HubStart /\ CacheStart /\ CAIdle /\ MitmIdle
  /\ FwdIdle /\ GRPCStart /\ StreamIdle /\ ServerStart /\ TailIdle

SpecAccept == AcceptInit /\ [][AcceptNext]_vars

\* One call of Forward; which path of the interceptor made it is an input.
FwdInit ==
  /\ FwdStart
  /\ tlsPath \in BOOLEAN
  /\ RecStart /\ PipeIdle /\ CorrIdle /\ HubStart /\ CacheStart /\ CAIdle /\ MitmIdle
  /\ AcceptIdle /\ GRPCStart /\ StreamIdle /\ ServerStart /\ TailIdle

SpecFwd == FwdInit /\ [][FwdNext]_vars

SpecFwdLive == FwdInit /\ [][FwdNext]_vars /\ FwdFair

\* One parser decoding frame after frame; what each frame holds is an input.
GRPCInit ==
  /\ GRPCStart
  /\ RecStart /\ PipeIdle /\ CorrIdle /\ HubStart /\ CacheStart /\ CAIdle /\ MitmIdle
  /\ AcceptIdle /\ FwdIdle /\ StreamIdle /\ ServerStart /\ TailIdle

SpecGRPC == GRPCInit /\ [][GRPCNext]_vars

\* One parser task of one connection; its direction, the recorder's log level
\* and what it reads are inputs.
StreamInit ==
  /\ StreamStart
  /\ logLevel \in {"basic", "debug"}
  /\ stIsRequest \in BOOLEAN
  /\ RecStart /\ PipeIdle /\ CorrIdle /\ HubStart /\ CacheStart /\ CAIdle /\ MitmIdle
  /\ AcceptIdle /\ FwdIdle /\ GRPCStart /\ ServerStart /\ TailIdle

SpecStream == StreamInit /\ [][StreamNext]_vars

\* One server from NewServer on: one call of Start, one of Stop.
ServerInit ==
  /\ ServerStart
  /\ RecStart /\ PipeIdle /\ CorrIdle /\ HubStart /\ CacheStart /\ CAIdle /\ MitmIdle
  /\ AcceptIdle /\ FwdIdle /\ GRPCStart /\ StreamIdle /\ TailIdle

SpecServer == ServerInit /\ [][ServerNext]_vars

\* The state every specification below starts the other components in.
BaseIdle ==
  /\ RecStart /\ PipeIdle /\ CorrIdle /\ HubStart /\ CacheStart /\ CAIdle /\ MitmIdle
  /\ AcceptIdle /\ FwdIdle /\ GRPCStart /\ StreamIdle /\ ServerStart

\* One call of ParseContentType; the header value is an input.
CTInit ==
  /\ ctIn \in AllContentTypes /\ ctInfo = << >>
  /\ BaseIdle /\ FrameIdle /\ RegIdle /\ SocksIdle /\ DialIdle /\ LateIdle

SpecCT == CTInit /\ [][CTNext]_vars

\* One call of ReadFrame; the bytes of the body are an input.
FrameInit ==
  /\ frBody \in FrameBodies /\ frOut = << >>
  /\ BaseIdle /\ CTIdle /\ RegIdle /\ SocksIdle /\ DialIdle /\ LateIdle

SpecFrame == FrameInit /\ [][FrameNext]_vars

\* One registry from NewMessageRegistry on; the descriptor pool of the process
\* is an input.
RegInit ==
  /\ RegStart /\ regPool \in Pools
  /\ BaseIdle /\ CTIdle /\ FrameIdle /\ SocksIdle /\ DialIdle /\ LateIdle

SpecReg == RegInit /\ [][RegNext]_vars

\* One connection to the SOCKS5 port; what the client sends is an input.
SocksInit ==
  /\ SocksStart /\ socksIn \in SocksStreams
  /\ BaseIdle /\ CTIdle /\ FrameIdle /\ RegIdle /\ DialIdle /\ LateIdle

SpecSocks == SocksInit /\ [][SocksNext]_vars

\* One call of Dial through an upstream proxy; the proxy's scheme, its reply
\* and how many bytes the target sends behind it are inputs.
DialInit ==
  /\ DialStart
  /\ dialVia \in { "http", "socks5" }
  /\ dialTarget \in 0..MaxTargetBytes
  /\ upWire \in { reply \o Bytes(200, dialTarget) : reply \in ProxyReplies(dialVia) }
  /\ dialPc = IF dialVia = "http" THEN "status" ELSE "method"
  /\ BaseIdle /\ CTIdle /\ FrameIdle /\ RegIdle /\ SocksIdle /\ LateIdle

SpecDial == DialInit /\ [][DialNext]_vars

\* The hub with each client's Register call and any Unregister calls.
HubOpsInit ==
  /\ HubOpsStart
  /\ BaseIdle /\ CTIdle /\ FrameIdle /\ RegIdle /\ SocksIdle /\ DialIdle /\ LifeStart
  /\ SSEIdle

SpecHubOps == HubOpsInit /\ [][HubOpsNext]_vars

\* One Server from NewServer on, with the Start and Stop calls made on it.
LifeInit ==
  /\ LifeStart
  /\ BaseIdle /\ CTIdle /\ FrameIdle /\ RegIdle /\ SocksIdle /\ DialIdle /\ HubOpsStart
  /\ SSEIdle

SpecLife == LifeInit /\ [][LifeNext]_vars

\* One response body handed to parseSSEEvents; its lines are an input.
SSEInit ==
  /\ SSEStart
  /\ sseIn \in LinesUpTo(MaxLines)
  /\ sseOpenTail \in BOOLEAN
  /\ sseOpenTail => sseIn # << >>
  /\ BaseIdle /\ CTIdle /\ FrameIdle /\ RegIdle /\ SocksIdle /\ DialIdle /\ HubOpsStart
  /\ LifeStart

SpecSSE == SSEInit /\ [][SSEStep]_vars

====
